---- MODULE Spec2Model ----
(***************************************************************************)
(* A model of the CrisisWatch verification core: the claim cache           *)
(* (services/claim_store.py), the evidence aggregation and synthesis       *)
(* stages (graph/nodes.py) and the pipeline runner (api/main.py).          *)
(*                                                                         *)
(* These specifications share the module:                                  *)
(*   SpecCache    one caller; every ClaimStore method is one atomic step.  *)
(*   SpecThreads  several threads; every lock acquisition, critical        *)
(*                section and unlocked step of a method is its own step.   *)
(*   SpecSearch   one call of search_sources, its adapter tasks ending in  *)
(*                any order.                                               *)
(*   SpecPipeline one run of run_factcheck_pipeline, a stage per step.     *)
(*   SpecCalls    one call of one pure function of graph/nodes.py or       *)
(*                services/confidence.py on arguments of bounded sets.     *)
(*   SpecStreaming one call of search_sources_streaming, the adapters      *)
(*                awaited one after the other.                             *)
(*   SpecScorer   calls of get_reliability_score on the module singleton.  *)
(*   SpecEndpoint the event generator of check_claim_stream beside the     *)
(*                streaming search that feeds its queue.                   *)
(*   SpecBatch    one call of check_claims_batch, chunk by chunk.          *)
(*   SpecLocks    every locking operation of ClaimStore run by threads,    *)
(*                the load of the constructor included; SpecLocksFair adds *)
(*                fair scheduling of the threads.                          *)
(*   SpecGather   SpecSearch with the order of completion of the tasks.    *)
(* Each specification leaves the variables of the others at their initial  *)
(* values.                                                                 *)
(***************************************************************************)
EXTENDS Integers, Sequences, FiniteSets, TLC

VARIABLES
    cache,          \* ClaimStore._cache: the entries in dict (insertion) order
    now,            \* the wall clock read by datetime.now()
    persist_path,   \* TRUE when the store was built with a persistence path
    ret,            \* the last ClaimStore call: its arguments, locals and result
    pc,             \* SpecThreads: per thread, the position inside its call
    lock,           \* SpecThreads: the holder of ClaimStore._lock, or NoThread
    local,          \* SpecThreads: per thread, the locals of its call
    ppc,            \* position of run_factcheck_pipeline or search_sources
    state,          \* the state dict passed between the stages
    avail,          \* is_available of the key-dependent adapters
    tasks,          \* the task list of search_sources, by adapter name
    outcome,        \* per task: pending, raised, or returned with its results
    llm_calls,      \* reasoning calls made so far per stage, and which raised
    result,         \* what run_factcheck_pipeline produced
    events,         \* what search_sources_streaming handed to its callback, in order
    call,           \* SpecCalls: the function called, its arguments and its return value
    _scorer,        \* reliability._scorer: the module's singleton, "None" until first used
    scored,         \* SpecScorer: the calls of get_reliability_score so far, with their results
    event_queue,    \* check_claim_stream: the asyncio.Queue the callback puts into
    total_sources_found, \* check_claim_stream: the running total of the callback
    gpc,            \* SpecEndpoint: the position of generate_events around its poll loop
    delivered,      \* SpecEndpoint: the events generate_events has yielded, in order
    bpc,            \* SpecBatch: the position of check_claims_batch
    claims_to_process, \* check_claims_batch: the claims not answered from the cache
    batch_index,    \* check_claims_batch: i of the loop over the chunks
    process,        \* SpecBatch: per claim, how far its process_claim task is
    completed       \* SpecGather: the tasks of search_sources in the order they ended

cacheVars == <<cache, now, persist_path, ret>>
threadVars == <<pc, lock, local>>
scorerVars == <<_scorer, scored>>
queueVars == <<event_queue, total_sources_found>>
endpointVars == <<gpc, delivered>>
batchVars == <<bpc, claims_to_process, batch_index, process>>
auxVars == <<scorerVars, queueVars, endpointVars, batchVars, completed>>
callVars == <<events, call, auxVars>>
pipeVars == <<ppc, state, avail, tasks, outcome, llm_calls, result, events, call, auxVars>>
vars == <<cache, now, persist_path, ret, pc, lock, local,
          ppc, state, avail, tasks, outcome, llm_calls, result, events, call,
          _scorer, scored, event_queue, total_sources_found, gpc, delivered,
          bpc, claims_to_process, batch_index, process, completed>>

(***************************************************************************)
(* Bounds of the model.                                                    *)
(***************************************************************************)
MaxTime == 2        \* the clock runs from 0 to MaxTime
cache_ttl == 1      \* ClaimStore.cache_ttl, in clock ticks
max_cache_size == 2 \* ClaimStore(max_cache_size=2)

(***************************************************************************)
(* Texts are sequences of one-character strings.                           *)
(***************************************************************************)
Whitespace == {" "}
Punctuation == {".", ",", "!", "?", ";", ":", "\"", "'", "(", ")", "[", "]", "{", "}"}

ClaimTexts ==
    { <<"A">>, <<"a", ".">>, <<".">>, <<"a", " ", "b">> }

UpperCase ==
    <<"A", "B", "C", "D", "E", "F", "G", "H", "I", "J", "K", "L", "M",
      "N", "O", "P", "Q", "R", "S", "T", "U", "V", "W", "X", "Y", "Z">>
LowerCase ==
    <<"a", "b", "c", "d", "e", "f", "g", "h", "i", "j", "k", "l", "m",
      "n", "o", "p", "q", "r", "s", "t", "u", "v", "w", "x", "y", "z">>

LowerChar(c) ==
    IF \E i \in 1..26 : UpperCase[i] = c
    THEN LowerCase[CHOOSE i \in 1..26 : UpperCase[i] = c]
    ELSE c

Lower(s) == [i \in 1..Len(s) |-> LowerChar(s[i])]

RECURSIVE SplitFrom(_, _, _)
SplitFrom(s, cur, acc) ==
    IF s = <<>>
    THEN IF cur = <<>> THEN acc ELSE Append(acc, cur)
    ELSE IF Head(s) \in Whitespace
         THEN SplitFrom(Tail(s), <<>>, IF cur = <<>> THEN acc ELSE Append(acc, cur))
         ELSE SplitFrom(Tail(s), Append(cur, Head(s)), acc)

\* str.split(): the maximal runs of non-whitespace characters
Split(s) == SplitFrom(s, <<>>, <<>>)

RECURSIVE Join(_)
\* " ".join(words)
Join(words) ==
    IF words = <<>> THEN <<>>
    ELSE IF Len(words) = 1 THEN Head(words)
    ELSE Head(words) \o <<" ">> \o Join(Tail(words))

RECURSIVE Strip(_)
\* str.strip(): drop leading and trailing whitespace
Strip(s) ==
    IF s = <<>> THEN <<>>
    ELSE IF Head(s) \in Whitespace THEN Strip(Tail(s))
    ELSE IF s[Len(s)] \in Whitespace THEN Strip(SubSeq(s, 1, Len(s) - 1))
    ELSE s

\* text.replace(char, "") for every char of the punctuation string
RemovePunctuation(s) == SelectSeq(s, LAMBDA c : c \notin Punctuation)

\* the steps of ClaimStore._normalize_claim, in its order
Normalize(text) == RemovePunctuation(Join(Split(Strip(Lower(text)))))

\* Normalize, tabulated once over the texts of the model
NormalizeTable == [t \in ClaimTexts |-> Normalize(t)]

_normalize_claim(claim_text) ==
    IF claim_text \in ClaimTexts THEN NormalizeTable[claim_text] ELSE Normalize(claim_text)

\* hashlib.sha256(...).hexdigest()[:16]: a digest of the bytes it is given.
\* Distinct inputs of the bounded domain get distinct digests (no collision
\* of the 64-bit prefix among the handful of texts of the model).
Sha256Hex16(s) == <<"#">> \o s

_hash_claim_raw(claim_text) == Sha256Hex16(claim_text)

_hash_claim(claim_text) == Sha256Hex16(_normalize_claim(claim_text))

(***************************************************************************)
(* ClaimStore: the cache map and its methods as functions of the map.      *)
(* The map is the sequence of its entries in dict order: a new key goes to *)
(* the end, a key written again keeps its place.  checked_at is the clock  *)
(* value; the ISO-8601 strings the code stores and sorts compare as the    *)
(* instants they denote.                                                   *)
(***************************************************************************)
Results ==
    { [verdict |-> "false", confidence |-> 9000, severity |-> "high"],
      [verdict |-> "unverifiable", confidence |-> 3000, severity |-> "medium"] }

StoredVerdicts == {r.verdict : r \in Results}
StoredSeverities == {r.severity : r \in Results}

\* a threshold of find_similar as numerator and denominator: 0.8 (the default),
\* 0.5 and 0.0
Thresholds == { <<4, 5>>, <<1, 2>>, <<0, 1>> }

HasKey(c, key) == \E i \in 1..Len(c) : c[i].claim_hash = key

Lookup(c, key) == c[CHOOSE i \in 1..Len(c) : c[i].claim_hash = key]

\* self._cache[key] = entry
DictSet(c, key, entry) ==
    IF HasKey(c, key)
    THEN [i \in 1..Len(c) |-> IF c[i].claim_hash = key THEN entry ELSE c[i]]
    ELSE Append(c, entry)

\* del self._cache[key]
DictDel(c, key) == SelectSeq(c, LAMBDA e : e.claim_hash # key)

_is_expired_ge(entry, t) == t - entry.checked_at >= cache_ttl

_is_expired(entry, t) == t - entry.checked_at > cache_ttl

_cleanup_expired(c, t) == SelectSeq(c, LAMBDA e : ~_is_expired(e, t))

RECURSIVE InsertByCheckedAt(_, _)
\* e placed behind every element whose checked_at is not larger: sorted() is stable
InsertByCheckedAt(sorted, e) ==
    IF sorted = <<>> THEN <<e>>
    ELSE IF Head(sorted).checked_at <= e.checked_at
         THEN <<Head(sorted)>> \o InsertByCheckedAt(Tail(sorted), e)
         ELSE <<e>> \o sorted

RECURSIVE SortedByCheckedAt(_)
\* sorted(self._cache.items(), key=lambda x: x[1]["checked_at"])
SortedByCheckedAt(c) ==
    IF c = <<>> THEN <<>>
    ELSE InsertByCheckedAt(SortedByCheckedAt(SubSeq(c, 1, Len(c) - 1)), c[Len(c)])

\* a variant that removes the newest entries instead of the oldest
_enforce_size_limit_newest(c) ==
    IF Len(c) > max_cache_size
    THEN LET sorted_items == SortedByCheckedAt(c)
             to_remove == Len(c) - max_cache_size
             gone == {sorted_items[i].claim_hash :
                        i \in (Len(c) - to_remove + 1)..Len(c)}
         IN  [cache |-> SelectSeq(c, LAMBDA e : e.claim_hash \notin gone),
              removed |-> SelectSeq(sorted_items, LAMBDA e : e.claim_hash \in gone)]
    ELSE [cache |-> c, removed |-> <<>>]

_enforce_size_limit(c) ==
    IF Len(c) > max_cache_size
    THEN LET sorted_items == SortedByCheckedAt(c)
             to_remove == Len(c) - max_cache_size
             gone == {sorted_items[i].claim_hash : i \in 1..to_remove}
         IN  [cache |-> SelectSeq(c, LAMBDA e : e.claim_hash \notin gone),
              removed |-> SubSeq(sorted_items, 1, to_remove)]
    ELSE [cache |-> c, removed |-> <<>>]

\* a variant in which the I/O error of the snapshot write is not caught
_save_to_disk_uncaught(path, io) ==
    IF ~path THEN [written |-> FALSE, printed |-> FALSE, raised |-> FALSE]
    ELSE IF io = "ok" THEN [written |-> TRUE, printed |-> FALSE, raised |-> FALSE]
    ELSE [written |-> FALSE, printed |-> FALSE, raised |-> TRUE]

\* io is what the file system does with mkdir, open and the write: "ok" or
\* "fail" (an exception); the exception is caught and printed
_save_to_disk(path, io) ==
    IF ~path THEN [written |-> FALSE, printed |-> FALSE, raised |-> FALSE]
    ELSE IF io = "ok" THEN [written |-> TRUE, printed |-> FALSE, raised |-> FALSE]
    ELSE [written |-> FALSE, printed |-> TRUE, raised |-> FALSE]

NewEntry(claim_text, r, t) ==
    [claim_hash |-> _hash_claim(claim_text),
     claim_text |-> claim_text,
     normalized |-> _normalize_claim(claim_text),
     verdict |-> r.verdict,
     confidence |-> r.confidence,
     severity |-> r.severity,
     checked_at |-> t]

\* ClaimStore.get and ClaimStore.exists share their body: the entry under the
\* key when it is there and fresh; an expired entry is deleted
get(c, claim_text, t) ==
    LET claim_hash == _hash_claim(claim_text) IN
    IF HasKey(c, claim_hash)
    THEN IF ~_is_expired(Lookup(c, claim_hash), t)
         THEN [cache |-> c, entries |-> <<Lookup(c, claim_hash)>>, removed |-> <<>>]
         ELSE [cache |-> DictDel(c, claim_hash), entries |-> <<>>,
               removed |-> <<Lookup(c, claim_hash)>>]
    ELSE [cache |-> c, entries |-> <<>>, removed |-> <<>>]

\* set(normalized.split())
Words(s) == LET w == Split(s) IN {w[i] : i \in 1..Len(w)}

\* Words, tabulated once over the normalized texts of the model
WordsTable == [n \in {NormalizeTable[t] : t \in ClaimTexts} |-> Words(n)]

WordSet(s) == IF s \in DOMAIN WordsTable THEN WordsTable[s] ELSE Words(s)

\* Jaccard similarity as <<intersection, union>>
Jaccard(words, entry_words) ==
    <<Cardinality(words \cap entry_words), Cardinality(words \cup entry_words)>>

\* a/b >= c/d for positive b, d
RatGeq(x, y) == x[1] * y[2] >= y[1] * x[2]

RECURSIVE InsertBySimilarity_ascending(_, _)
\* a variant that sorts by rising similarity
InsertBySimilarity_ascending(sorted, m) ==
    IF sorted = <<>> THEN <<m>>
    ELSE IF RatGeq(m.similarity, Head(sorted).similarity)
         THEN <<Head(sorted)>> \o InsertBySimilarity_ascending(Tail(sorted), m)
         ELSE <<m>> \o sorted

RECURSIVE InsertBySimilarity(_, _)
\* sorted(..., reverse=True) is stable too: m goes behind the elements that
\* are at least as similar
InsertBySimilarity(sorted, m) ==
    IF sorted = <<>> THEN <<m>>
    ELSE IF RatGeq(Head(sorted).similarity, m.similarity)
         THEN <<Head(sorted)>> \o InsertBySimilarity(Tail(sorted), m)
         ELSE <<m>> \o sorted

RECURSIVE SortedBySimilarity(_)
SortedBySimilarity(ms) ==
    IF ms = <<>> THEN <<>>
    ELSE InsertBySimilarity(SortedBySimilarity(SubSeq(ms, 1, Len(ms) - 1)), ms[Len(ms)])

RECURSIVE SimilarScan(_, _, _, _)
\* the loop over self._cache.values()
SimilarScan(c, words, threshold, t) ==
    IF c = <<>> THEN <<>>
    ELSE LET entry == Head(c)
             entry_words == WordSet(entry.normalized)
             similarity == Jaccard(words, entry_words)
             rest == SimilarScan(Tail(c), words, threshold, t)
         IN  IF _is_expired(entry, t) THEN rest
             ELSE IF entry_words = {} THEN rest
             ELSE IF RatGeq(similarity, threshold)
                  THEN <<[entry |-> entry, similarity |-> similarity]>> \o rest
                  ELSE rest

find_similar(c, claim_text, threshold, t) ==
    LET words == WordSet(_normalize_claim(claim_text)) IN
    IF words = {} THEN <<>>
    ELSE SortedBySimilarity(SimilarScan(c, words, threshold, t))

get_stats(c) ==
    [total_claims |-> Len(c),
     by_verdict |-> [v \in StoredVerdicts |->
                        Cardinality({i \in 1..Len(c) : c[i].verdict = v})],
     by_severity |-> [s \in StoredSeverities |->
                        Cardinality({i \in 1..Len(c) : c[i].severity = s})]]

(***************************************************************************)
(* SpecCache: one caller, every method of ClaimStore one step.             *)
(***************************************************************************)
NoRet ==
    [op |-> "none", text |-> <<>>, result |-> <<>>, key |-> <<>>, found |-> FALSE,
     entries |-> <<>>, similarity |-> <<>>, threshold |-> <<>>, removed |-> <<>>,
     stats |-> get_stats(<<>>), io |-> "none", printed |-> FALSE, raised |-> FALSE]

ThreadsOff == pc = <<>> /\ lock = "off" /\ local = <<>>

NoCall == [fn |-> "none"]

ScorerOff == _scorer = "None" /\ scored = <<>>

QueueOff == event_queue = <<>> /\ total_sources_found = 0

EndpointOff == gpc = "off" /\ delivered = <<>>

BatchOff ==
    bpc = "off" /\ claims_to_process = <<>> /\ batch_index = 0 /\ process = <<>>

GatherOff == completed = <<>>

AuxOff == ScorerOff /\ QueueOff /\ EndpointOff /\ BatchOff /\ GatherOff

CallsOff == events = <<>> /\ call = NoCall /\ AuxOff

PipelineOff ==
    /\ ppc = "off" /\ state = <<>> /\ avail = <<>> /\ tasks = <<>>
    /\ outcome = <<>> /\ llm_calls = <<>> /\ result = <<>>
    /\ CallsOff

\* ClaimStore.__init__ without a snapshot on disk
InitCache ==
    /\ cache = <<>>
    /\ now = 0
    /\ persist_path \in BOOLEAN
    /\ ret = NoRet
    /\ ThreadsOff
    /\ PipelineOff

\* ClaimStore.store(claim_text, r); io is the fate of the snapshot write
Store(claim_text, r, io) ==
    LET claim_hash == _hash_claim(claim_text)
        entry == NewEntry(claim_text, r, now)
        inserted == DictSet(cache, claim_hash, entry)
        cleaned == _cleanup_expired(inserted, now)
        limited == _enforce_size_limit(cleaned)
        saved == _save_to_disk(persist_path, io)
    IN  /\ cache' = limited.cache
        /\ ret' = [NoRet EXCEPT !.op = "store", !.text = claim_text, !.result = <<r>>,
                                !.key = IF saved.raised THEN <<>> ELSE claim_hash,
                                !.entries = <<entry>>,
                                !.removed = limited.removed,
                                !.io = io,
                                !.printed = saved.printed,
                                !.raised = saved.raised]
        /\ UNCHANGED <<now, persist_path>>
        /\ UNCHANGED <<threadVars, pipeVars>>
    /\ UNCHANGED <<threadVars, pipeVars>>

\* ClaimStore.get(claim_text)
Get(claim_text) ==
    LET got == get(cache, claim_text, now) IN
    /\ cache' = got.cache
    /\ ret' = [NoRet EXCEPT !.op = "get", !.text = claim_text,
                            !.found = got.entries # <<>>,
                            !.entries = got.entries, !.removed = got.removed]
    /\ UNCHANGED <<now, persist_path>>
    /\ UNCHANGED <<threadVars, pipeVars>>

\* ClaimStore.exists(claim_text)
Exists(claim_text) ==
    LET got == get(cache, claim_text, now) IN
    /\ cache' = got.cache
    /\ ret' = [NoRet EXCEPT !.op = "exists", !.text = claim_text,
                            !.found = got.entries # <<>>, !.removed = got.removed]
    /\ UNCHANGED <<now, persist_path>>
    /\ UNCHANGED <<threadVars, pipeVars>>

\* ClaimStore.find_similar(claim_text, threshold)
FindSimilar(claim_text, threshold) ==
    LET similar == find_similar(cache, claim_text, threshold, now) IN
    /\ ret' = [NoRet EXCEPT !.op = "find_similar", !.text = claim_text,
                            !.found = similar # <<>>, !.threshold = threshold,
                            !.entries = [i \in 1..Len(similar) |-> similar[i].entry],
                            !.similarity = [i \in 1..Len(similar) |-> similar[i].similarity]]
    /\ UNCHANGED <<cache, now, persist_path>>
    /\ UNCHANGED <<threadVars, pipeVars>>

\* ClaimStore.get_stats()
GetStats ==
    /\ ret' = [NoRet EXCEPT !.op = "get_stats", !.stats = get_stats(cache)]
    /\ UNCHANGED <<cache, now, persist_path>>
    /\ UNCHANGED <<threadVars, pipeVars>>

\* ClaimStore.clear()
Clear ==
    /\ cache' = <<>>
    /\ ret' = [NoRet EXCEPT !.op = "clear"]
    /\ UNCHANGED <<now, persist_path>>
    /\ UNCHANGED <<threadVars, pipeVars>>

\* time passes between two calls
Tick ==
    /\ now < MaxTime
    /\ now' = now + 1
    /\ UNCHANGED <<cache, persist_path, ret>>
    /\ UNCHANGED <<threadVars, pipeVars>>

NextCache ==
    \/ \E t \in ClaimTexts, r \in Results,
          io \in (IF persist_path THEN {"ok", "fail"} ELSE {"none"}) : Store(t, r, io)
    \/ \E t \in ClaimTexts : Get(t)
    \/ \E t \in ClaimTexts : Exists(t)
    \/ \E t \in ClaimTexts, th \in Thresholds : FindSimilar(t, th)
    \/ GetStats
    \/ Clear
    \/ Tick

SpecCache == InitCache /\ [][NextCache]_vars

(***************************************************************************)
(* SpecThreads: several threads call store, get and clear on one           *)
(* ClaimStore.  A `with self._lock:` block is two steps, Acquire and the   *)
(* body that ends with the release; what a method does outside such a      *)
(* block is a step of its own.                                             *)
(***************************************************************************)
NumThreads == 2

Threads == 1..NumThreads

NoThread == 0

ThreadTexts == { <<"A">>, <<"b">>, <<"a", " ", "b">> }

ThreadResults == { r \in Results : r.verdict = "false" }

\* the locals of a call; they are gone when the call returns
NoLocal == [op |-> "none", text |-> <<>>, entry |-> <<>>]

InitThreads ==
    /\ cache = <<>>
    /\ now = 0
    /\ persist_path \in BOOLEAN
    /\ ret = NoRet
    /\ pc = [t \in Threads |-> "idle"]
    /\ lock = NoThread
    /\ local = [t \in Threads |-> NoLocal]
    /\ PipelineOff

\* the positions at which a thread waits for the lock, and where it is once it has it
LockedSection ==
    [want_insert |-> "in_insert", want_cleanup |-> "in_cleanup",
     want_enforce |-> "in_enforce", want_get |-> "in_get", want_clear |-> "in_clear",
     want_exists |-> "in_exists", want_find |-> "in_find", want_stats |-> "in_stats",
     want_load |-> "in_load"]

\* ClaimStore.store up to its first lock: the hash and the entry are built
CallStore(t, claim_text, r) ==
    /\ pc[t] = "idle"
    /\ local' = [local EXCEPT ![t] = [NoLocal EXCEPT !.op = "store", !.text = claim_text,
                                          !.entry = <<NewEntry(claim_text, r, now)>>]]
    /\ pc' = [pc EXCEPT ![t] = "want_insert"]
    /\ UNCHANGED <<cache, now, persist_path, ret, lock, pipeVars>>

\* ClaimStore.get up to its lock
CallGet(t, claim_text) ==
    /\ pc[t] = "idle"
    /\ local' = [local EXCEPT ![t] = [NoLocal EXCEPT !.op = "get", !.text = claim_text]]
    /\ pc' = [pc EXCEPT ![t] = "want_get"]
    /\ UNCHANGED <<cache, now, persist_path, ret, lock, pipeVars>>

\* ClaimStore.clear up to its lock
CallClear(t) ==
    /\ pc[t] = "idle"
    /\ local' = [local EXCEPT ![t] = [NoLocal EXCEPT !.op = "clear"]]
    /\ pc' = [pc EXCEPT ![t] = "want_clear"]
    /\ UNCHANGED <<cache, now, persist_path, ret, lock, pipeVars>>

\* `with self._lock:` entered; threading.Lock is not reentrant and blocks
Acquire(t) ==
    /\ pc[t] \in DOMAIN LockedSection
    /\ lock = NoThread
    /\ lock' = t
    /\ pc' = [pc EXCEPT ![t] = LockedSection[pc[t]]]
    /\ UNCHANGED <<cache, now, persist_path, ret, local, pipeVars>>

\* a variant in which store calls _cleanup_expired inside its own with block
Insert_holding(t) ==
    /\ pc[t] = "in_insert"
    /\ cache' = DictSet(cache, local[t].entry[1].claim_hash, local[t].entry[1])
    /\ pc' = [pc EXCEPT ![t] = "want_cleanup"]
    /\ UNCHANGED <<now, persist_path, ret, local, lock, pipeVars>>

\* store: self._cache[claim_hash] = entry, and the block is left
Insert(t) ==
    /\ pc[t] = "in_insert"
    /\ cache' = DictSet(cache, local[t].entry[1].claim_hash, local[t].entry[1])
    /\ lock' = NoThread
    /\ pc' = [pc EXCEPT ![t] = "want_cleanup"]
    /\ UNCHANGED <<now, persist_path, ret, local, pipeVars>>

\* the body of _cleanup_expired
CleanupExpired(t) ==
    /\ pc[t] = "in_cleanup"
    /\ cache' = _cleanup_expired(cache, now)
    /\ lock' = NoThread
    /\ pc' = [pc EXCEPT ![t] = "want_enforce"]
    /\ UNCHANGED <<now, persist_path, ret, local, pipeVars>>

\* a variant of the step that evicts nothing
EnforceSizeLimit_kept(t) ==
    /\ pc[t] = "in_enforce"
    /\ lock' = NoThread
    /\ pc' = [pc EXCEPT ![t] = "save"]
    /\ UNCHANGED <<cache, now, persist_path, ret, local, pipeVars>>

\* the body of _enforce_size_limit; store goes on to _save_to_disk
EnforceSizeLimit(t) ==
    /\ pc[t] = "in_enforce"
    /\ cache' = _enforce_size_limit(cache).cache
    /\ lock' = NoThread
    /\ pc' = [pc EXCEPT ![t] = "save"]
    /\ UNCHANGED <<now, persist_path, ret, local, pipeVars>>

\* _save_to_disk is entered without the lock: it returns at once when there is
\* no persistence path, and else opens the file and starts json.dump, which
\* iterates self._cache
SaveBegin(t) ==
    /\ pc[t] = "save"
    /\ pc' = [pc EXCEPT ![t] = IF persist_path THEN "saving" ELSE "idle"]
    /\ local' = [local EXCEPT ![t] = IF persist_path THEN local[t] ELSE NoLocal]
    /\ UNCHANGED <<cache, now, persist_path, ret, lock, pipeVars>>

\* json.dump ends: the snapshot is written, or an exception (an I/O error, or
\* the RuntimeError of a dict that changed size under the iteration) is caught
\* and printed; either way store returns the hash
SaveEnd(t) ==
    /\ pc[t] = "saving"
    /\ local' = [local EXCEPT ![t] = NoLocal]
    /\ pc' = [pc EXCEPT ![t] = "idle"]
    /\ UNCHANGED <<cache, now, persist_path, ret, lock, pipeVars>>

\* the body of get
GetLocked(t) ==
    /\ pc[t] = "in_get"
    /\ cache' = get(cache, local[t].text, now).cache
    /\ local' = [local EXCEPT ![t] = NoLocal]
    /\ lock' = NoThread
    /\ pc' = [pc EXCEPT ![t] = "idle"]
    /\ UNCHANGED <<now, persist_path, ret, pipeVars>>

\* the body of clear; the unlink that follows touches the file alone
ClearLocked(t) ==
    /\ pc[t] = "in_clear"
    /\ cache' = <<>>
    /\ lock' = NoThread
    /\ pc' = [pc EXCEPT ![t] = "idle"]
    /\ local' = [local EXCEPT ![t] = NoLocal]
    /\ UNCHANGED <<now, persist_path, ret, pipeVars>>

NextThreads ==
    \/ \E t \in Threads, x \in ThreadTexts, r \in ThreadResults : CallStore(t, x, r)
    \/ \E t \in Threads, x \in ThreadTexts : CallGet(t, x)
    \/ \E t \in Threads : CallClear(t)
    \/ \E t \in Threads : Acquire(t)
    \/ \E t \in Threads : Insert(t)
    \/ \E t \in Threads : CleanupExpired(t)
    \/ \E t \in Threads : EnforceSizeLimit(t)
    \/ \E t \in Threads : SaveBegin(t)
    \/ \E t \in Threads : SaveEnd(t)
    \/ \E t \in Threads : GetLocked(t)
    \/ \E t \in Threads : ClearLocked(t)

SpecThreads == InitThreads /\ [][NextThreads]_vars

(***************************************************************************)
(* Claims about the cache, checked under SpecCache.                        *)
(***************************************************************************)
Fresh(e, t) == t - e.checked_at <= cache_ttl

\* a step of the named method: ret changes to it while the clock stands
CallOf(op) == ret'.op = op /\ now' = now

\* C3: when t1 and t2 normalize identically, get(t2) right after store(t1, r)
\* (nothing but time in between, and no more than the TTL of it) returns an
\* entry with the verdict, confidence and severity of r, and t1 and t2 have
\* the same hash key.
C3_StoreThenGet ==
    [][ ( /\ ret.op = "store"
          /\ CallOf("get")
          /\ Normalize(ret.text) = Normalize(ret'.text)
          /\ Fresh(ret.entries[1], now) )
        => ( /\ ret'.found
             /\ ret'.entries[1].verdict = ret.result[1].verdict
             /\ ret'.entries[1].confidence = ret.result[1].confidence
             /\ ret'.entries[1].severity = ret.result[1].severity
             /\ _hash_claim(ret.text) = _hash_claim(ret'.text) ) ]_vars

\* get(t2) has returned the entry that was stored under another text t1
C3_Witness ==
    /\ ret.op = "get"
    /\ ret.found
    /\ ret.entries[1].claim_text # ret.text
    /\ ret.entries[1].verdict = "false"

\* C4: get(t) of a stored text returns nothing and deletes the entry once
\* now - stored_at > TTL; up to then it returns the entry and leaves the map
\* as it is.
C4_GetExpiry ==
    [][ CallOf("get") =>
          \A i \in 1..Len(cache) :
              cache[i].normalized = Normalize(ret'.text) =>
                  IF now - cache[i].checked_at > cache_ttl
                  THEN /\ ~ret'.found
                       /\ ret'.entries = <<>>
                       /\ Len(cache') = Len(cache) - 1
                       /\ \A j \in 1..Len(cache') : cache'[j] # cache[i]
                  ELSE /\ ret'.entries = <<cache[i]>>
                       /\ cache' = cache ]_vars

\* a get has found its entry expired and deleted it
C4_Witness ==
    /\ ret.op = "get"
    /\ ~ret.found
    /\ ret.removed # <<>>
    /\ now - ret.removed[1].checked_at > cache_ttl
    /\ \A i \in 1..Len(cache) : cache[i].normalized # ret.removed[1].normalized

\* C5: when store returns, the cache holds at most max_cache_size entries and
\* no entry evicted for size is newer than an entry that stayed.
C5_SizeLimit ==
    ret.op = "store" =>
        /\ Len(cache) <= max_cache_size
        /\ \A i \in 1..Len(ret.removed), j \in 1..Len(cache) :
               ret.removed[i].checked_at <= cache[j].checked_at

\* a store has evicted an entry that is older than the one it kept
C5_Witness ==
    /\ ret.op = "store"
    /\ ret.removed # <<>>
    /\ Len(cache) = max_cache_size
    /\ \E j \in 1..Len(cache) : ret.removed[1].checked_at < cache[j].checked_at

FreshCount(c, t) == Cardinality({i \in 1..Len(c) : Fresh(c[i], t)})

\* C7: an entry older than the TTL is absent for every read: get, exists and
\* find_similar never return it, get_stats never counts it.
C7_ExpiredIsAbsent ==
    [][ /\ CallOf("get") =>
             \A i \in 1..Len(ret'.entries) : Fresh(ret'.entries[i], now)
        /\ CallOf("exists") =>
             (ret'.found => \E i \in 1..Len(cache) :
                                /\ cache[i].normalized = Normalize(ret'.text)
                                /\ Fresh(cache[i], now))
        /\ CallOf("find_similar") =>
             \A i \in 1..Len(ret'.entries) : Fresh(ret'.entries[i], now)
        /\ CallOf("get_stats") =>
             ret'.stats.total_claims = FreshCount(cache, now) ]_vars

\* C8: when the snapshot write of store fails, store returns the hash key and
\* raises nothing, the entry it wrote is in the map, and the next get of the
\* text returns it.
C8_SaveFailure ==
    /\ [] ( (ret.op = "store" /\ ret.io = "fail") =>
              /\ ~ret.raised
              /\ ret.key = Sha256Hex16(Normalize(ret.text))
              /\ \E i \in 1..Len(cache) :
                     /\ cache[i].claim_text = ret.text
                     /\ cache[i].verdict = ret.result[1].verdict
                     /\ cache[i].confidence = ret.result[1].confidence
                     /\ cache[i].severity = ret.result[1].severity )
    /\ [][ ( /\ ret.op = "store" /\ ret.io = "fail"
             /\ CallOf("get")
             /\ ret'.text = ret.text
             /\ Fresh(ret.entries[1], now) )
           => (ret'.found /\ ret'.entries = ret.entries) ]_vars

\* a store whose snapshot write failed has returned, the failure printed
C8_Witness ==
    /\ ret.op = "store"
    /\ ret.io = "fail"
    /\ ret.printed
    /\ ret.key # <<>>
    /\ \E i \in 1..Len(cache) : cache[i] = ret.entries[1]

(***************************************************************************)
(* Claims about the cache under concurrent callers, checked under          *)
(* SpecThreads.                                                            *)
(***************************************************************************)
\* a thread here is about to write the map, inside a locked block
Mutating == {"in_insert", "in_cleanup", "in_enforce", "in_get", "in_clear"}

\* a thread here reads, iterates or writes the map
Accessing == Mutating \cup {"saving"}

\* C6: every read and every mutation of the cache map, the snapshot write of
\* store included, is made by a thread that holds the cache lock, so no thread
\* reads or iterates the map while another thread mutates it.
C6_MapAccessUnderLock ==
    /\ \A t \in Threads : pc[t] \in Accessing => lock = t
    /\ \A t1, t2 \in Threads :
           (t1 # t2 /\ pc[t1] \in Accessing) => pc[t2] \notin Mutating

\* the race itself: one thread is inside json.dump while another is inside a
\* locked block that writes the map
C6_Race ==
    \E t1, t2 \in Threads :
        /\ t1 # t2
        /\ pc[t1] = "saving"
        /\ pc[t2] = "in_insert"
        /\ lock = t2

(***************************************************************************)
(* The search adapters (tools/*.py) and what each may produce.  An adapter *)
(* call ends by raising or by returning a list of SearchResult records.    *)
(***************************************************************************)
SearchResult(title, url, snippet, source) ==
    [title |-> title, url |-> url, snippet |-> snippet, source |-> source,
     published_date |-> <<>>]

Raised == [status |-> "raised", value |-> <<>>]
Returned(results) == [status |-> "returned", value |-> results]
Pending == [status |-> "pending", value |-> <<>>]

TavilyResults ==
    << SearchResult(<<"5", "G", " ", "m", "y", "t", "h", " ", "b", "l", "o", "g">>, <<"h", "t", "t", "p", "s", ":", "/", "/", "w", "w", "w", ".", "e", "x", "a", "m", "p", "l", "e", ".", "c", "o", "m", "/", "a">>, <<"B", "l", "o", "g", " ", "p", "o", "s", "t">>, <<"t", "a", "v", "i", "l", "y">>),
       SearchResult(<<"W", "H", "O", " ", "s", "t", "a", "t", "e", "m", "e", "n", "t">>, <<"h", "t", "t", "p", "s", ":", "/", "/", "w", "w", "w", ".", "w", "h", "o", ".", "i", "n", "t", "/", "n", "e", "w", "s">>, <<"N", "o", " ", "l", "i", "n", "k", " ", "f", "o", "u", "n", "d">>, <<"t", "a", "v", "i", "l", "y">>) >>

TavilySecondaryResults ==
    << SearchResult(<<"F", "o", "r", "u", "m", " ", "t", "h", "r", "e", "a", "d">>, <<"e", "x", "a", "m", "p", "l", "e", ".", "c", "o", "m", "/", "b">>, <<" ", "B", "L", "O", "G", " ", "P", "O", "S", "T", " ">>, <<"t", "a", "v", "i", "l", "y">>) >>

GoogleFactCheckResults ==
    << SearchResult(<<"F", "a", "c", "t", " ", "c", "h", "e", "c", "k", " ", "5", "G">>, <<"h", "t", "t", "p", "s", ":", "/", "/", "w", "w", "w", ".", "s", "n", "o", "p", "e", "s", ".", "c", "o", "m", "/", "f", "a", "c", "t", "-", "c", "h", "e", "c", "k", "/", "5", "g">>, <<"R", "a", "t", "e", "d", " ", "f", "a", "l", "s", "e">>, <<"g", "o", "o", "g", "l", "e", "_", "f", "a", "c", "t", "c", "h", "e", "c", "k">>),
       SearchResult(<<"5", "G", " ", "a", "n", "d", " ", "v", "i", "r", "u", "s", "e", "s">>, <<"h", "t", "t", "p", "s", ":", "/", "/", "w", "w", "w", ".", "s", "n", "o", "p", "e", "s", ".", "c", "o", "m", "/", "f", "a", "c", "t", "-", "c", "h", "e", "c", "k", "/", "v", "i", "r", "u", "s">>, <<"N", "o", " ", "e", "v", "i", "d", "e", "n", "c", "e">>, <<"g", "o", "o", "g", "l", "e", "_", "f", "a", "c", "t", "c", "h", "e", "c", "k">>) >>

NewsResults ==
    << SearchResult(<<"B", "B", "C", " ", "r", "e", "p", "o", "r", "t">>, <<"h", "t", "t", "p", "s", ":", "/", "/", "w", "w", "w", ".", "b", "b", "c", ".", "c", "o", "m", "/", "n", "e", "w", "s", "/", "1">>, <<"M", "a", "s", "t", "s", " ", "a", "t", "t", "a", "c", "k", "e", "d">>, <<"n", "e", "w", "s", "a", "p", "i", ":", "B", "B", "C", " ", "N", "e", "w", "s">>) >>

WikipediaResults ==
    << SearchResult(<<"5", "G">>, <<"h", "t", "t", "p", "s", ":", "/", "/", "e", "n", ".", "w", "i", "k", "i", "p", "e", "d", "i", "a", ".", "o", "r", "g", "/", "w", "i", "k", "i", "/", "5", "G">>, <<"5", "G", " ", "i", "s", " ", "a", " ", "s", "t", "a", "n", "d", "a", "r", "d">>, <<"w", "i", "k", "i", "p", "e", "d", "i", "a">>) >>

\* AggregatedFactCheckTool.tools, in their order
AggregatorTools == <<"snopes", "politifact", "fullfact", "afp_factcheck", "reuters_factcheck">>

ScraperResults(tool) ==
    CASE tool = "snopes" ->
           << SearchResult(<<"S", "n", "o", "p", "e", "s", " ", "5", "G">>, <<"h", "t", "t", "p", "s", ":", "/", "/", "w", "w", "w", ".", "s", "n", "o", "p", "e", "s", ".", "c", "o", "m", "/", "x">>, <<"S", "n", "o", "p", "e", "s", " ", "s", "a", "y", "s", " ", "f", "a", "l", "s", "e">>, <<"s", "n", "o", "p", "e", "s">>),
              SearchResult(<<"S", "n", "o", "p", "e", "s", " ", "t", "o", "w", "e", "r", "s">>, <<"h", "t", "t", "p", "s", ":", "/", "/", "w", "w", "w", ".", "s", "n", "o", "p", "e", "s", ".", "c", "o", "m", "/", "y">>, <<"T", "o", "w", "e", "r", "s", " ", "a", "r", "e", " ", "s", "a", "f", "e">>, <<"s", "n", "o", "p", "e", "s">>) >>
      [] tool = "politifact" ->
           << SearchResult(<<"P", "o", "l", "i", "t", "i", "F", "a", "c", "t", " ", "5", "G">>, <<"h", "t", "t", "p", "s", ":", "/", "/", "w", "w", "w", ".", "p", "o", "l", "i", "t", "i", "f", "a", "c", "t", ".", "c", "o", "m", "/", "y">>, <<"P", "a", "n", "t", "s", " ", "o", "n", " ", "f", "i", "r", "e">>, <<"p", "o", "l", "i", "t", "i", "f", "a", "c", "t">>) >>
      [] tool = "fullfact" ->
           << SearchResult(<<"F", "u", "l", "l", " ", "F", "a", "c", "t", " ", "5", "G">>, <<"h", "t", "t", "p", "s", ":", "/", "/", "f", "u", "l", "l", "f", "a", "c", "t", ".", "o", "r", "g", "/", "z">>, <<"I", "n", "c", "o", "r", "r", "e", "c", "t">>, <<"f", "u", "l", "l", "f", "a", "c", "t">>) >>
      [] tool = "afp_factcheck" ->
           << SearchResult(<<"A", "F", "P", " ", "5", "G">>, <<"h", "t", "t", "p", "s", ":", "/", "/", "f", "a", "c", "t", "c", "h", "e", "c", "k", ".", "a", "f", "p", ".", "c", "o", "m", "/", "w">>, <<"M", "i", "s", "l", "e", "a", "d", "i", "n", "g">>, <<"a", "f", "p", "_", "f", "a", "c", "t", "c", "h", "e", "c", "k">>) >>
      [] tool = "reuters_factcheck" ->
           << SearchResult(<<"R", "e", "u", "t", "e", "r", "s", " ", "5", "G">>, <<"h", "t", "t", "p", "s", ":", "/", "/", "w", "w", "w", ".", "r", "e", "u", "t", "e", "r", "s", ".", "c", "o", "m", "/", "f", "a", "c", "t", "-", "c", "h", "e", "c", "k", "/", "v">>, <<"F", "a", "l", "s", "e", " ", "c", "l", "a", "i", "m">>, <<"r", "e", "u", "t", "e", "r", "s", "_", "f", "a", "c", "t", "c", "h", "e", "c", "k">>) >>

\* further results as adapters return them: a page already returned under another
\* address and in other letter case, pages whose URL has no scheme, and the same
\* page syndicated by another site
RepeatedResults ==
    << SearchResult(<<"F", "a", "c", "t", " ", "c", "h", "e", "c", "k", " ", "5", "G", " ", "(", "m", "o", "b", "i", "l", "e", ")">>, <<"h", "t", "t", "p", "s", ":", "/", "/", "s", "n", "o", "p", "e", "s", ".", "c", "o", "m", "/", "f", "a", "c", "t", "-", "c", "h", "e", "c", "k", "/", "5", "g", "?", "a", "m", "p", "=", "1">>, <<" ", "R", "A", "T", "E", "D", " ", "F", "A", "L", "S", "E">>, <<"t", "a", "v", "i", "l", "y">>),
       SearchResult(<<"F", "o", "r", "u", "m", " ", "r", "e", "p", "l", "y">>, <<"e", "x", "a", "m", "p", "l", "e", ".", "c", "o", "m", "/", "c">>, <<"R", "e", "p", "l", "y", " ", "o", "n", "e">>, <<"t", "a", "v", "i", "l", "y">>),
       SearchResult(<<"F", "o", "r", "u", "m", " ", "p", "o", "l", "l">>, <<"e", "x", "a", "m", "p", "l", "e", ".", "c", "o", "m", "/", "d">>, <<"P", "o", "l", "l", " ", "r", "e", "s", "u", "l", "t">>, <<"t", "a", "v", "i", "l", "y">>),
       SearchResult(<<"F", "a", "c", "t", " ", "c", "h", "e", "c", "k", " ", "5", "G", " ", "(", "s", "y", "n", "d", "i", "c", "a", "t", "e", "d", ")">>, <<"h", "t", "t", "p", "s", ":", "/", "/", "n", "e", "w", "s", ".", "e", "x", "a", "m", "p", "l", "e", ".", "o", "r", "g", "/", "5", "g">>, <<"R", "a", "t", "e", "d", " ", "F", "a", "l", "s", "e">>, <<"n", "e", "w", "s", "a", "p", "i", ":", "E", "x", "a", "m", "p", "l", "e", " ", "N", "e", "w", "s">>) >>

\* the elements of a list
Elements(seq) == {seq[i] : i \in 1..Len(seq)}

\* every SearchResult an adapter of the model can return
KnownResults ==
    Elements(TavilyResults) \cup Elements(TavilySecondaryResults)
    \cup Elements(GoogleFactCheckResults) \cup Elements(NewsResults)
    \cup Elements(WikipediaResults)
    \cup Elements(RepeatedResults)
    \cup UNION {Elements(ScraperResults(AggregatorTools[i])) : i \in 1..Len(AggregatorTools)}

KnownUrls == {r.url : r \in KnownResults}

(***************************************************************************)
(* Strings of the pipeline: Python str operations on character sequences.  *)
(***************************************************************************)
\* needle in hay
Contains(hay, needle) ==
    \E i \in 0..(Len(hay) - Len(needle)) : SubSeq(hay, i + 1, i + Len(needle)) = needle

\* s.startswith(p)
StartsWith(s, p) == Len(s) >= Len(p) /\ SubSeq(s, 1, Len(p)) = p

\* s.endswith(p)
EndsWith(s, p) == Len(s) >= Len(p) /\ SubSeq(s, Len(s) - Len(p) + 1, Len(s)) = p

\* s[:n]
Prefix(s, n) == SubSeq(s, 1, IF Len(s) < n THEN Len(s) ELSE n)

\* s[n:]
DropPrefix(s, n) == SubSeq(s, n + 1, Len(s))

\* s.split(sep)[0] for a set of one-character separators
UpTo(s, seps) ==
    IF \E i \in 1..Len(s) : s[i] \in seps
    THEN SubSeq(s, 1, (CHOOSE i \in 1..Len(s) :
                         s[i] \in seps /\ \A j \in 1..(i - 1) : s[j] \notin seps) - 1)
    ELSE s

\* re.sub(r'^www\.', '', domain), and the startswith("www.") test of nodes.py
StripWww(domain) == IF StartsWith(domain, <<"w", "w", "w", ".">>) THEN DropPrefix(domain, 4) ELSE domain

\* urlparse(url).netloc for the URL shapes of the model: the authority
\* follows "scheme://" and ends at the first "/", "?" or "#"; a URL with no
\* "//" has an empty netloc
Netloc(url) ==
    IF StartsWith(url, <<"h", "t", "t", "p", "s", ":", "/", "/">>) THEN UpTo(DropPrefix(url, 8), {"/", "?", "#"})
    ELSE IF StartsWith(url, <<"h", "t", "t", "p", ":", "/", "/">>) THEN UpTo(DropPrefix(url, 7), {"/", "?", "#"})
    ELSE IF StartsWith(url, <<"/", "/">>) THEN UpTo(DropPrefix(url, 2), {"/", "?", "#"})
    ELSE <<>>

\* the steps of nodes._extract_domain
UrlDomain(url) == StripWww(Lower(Netloc(url)))

\* UrlDomain, tabulated once over the URLs of the model
UrlDomainTable == [u \in KnownUrls |-> UrlDomain(u)]

\* nodes._extract_domain
_extract_domain(url) ==
    LET cached(table) == IF url \in DOMAIN table THEN table[url] ELSE UrlDomain(url)
    IN cached(UrlDomainTable)

(***************************************************************************)
(* services/reliability.py.  Scores are in units of 1e-4.                  *)
(***************************************************************************)
OFFICIAL_DOMAINS ==
    <<
      <<<<"w", "h", "o", ".", "i", "n", "t">>, 9500>>,
      <<<<"u", "n", ".", "o", "r", "g">>, 9500>>,
      <<<<"u", "n", "i", "c", "e", "f", ".", "o", "r", "g">>, 9500>>,
      <<<<"w", "o", "r", "l", "d", "b", "a", "n", "k", ".", "o", "r", "g">>, 9000>>,
      <<<<"i", "m", "f", ".", "o", "r", "g">>, 9000>>,
      <<<<"i", "c", "r", "c", ".", "o", "r", "g">>, 9200>>,
      <<<<"i", "f", "r", "c", ".", "o", "r", "g">>, 9200>>,
      <<<<"i", "n", "d", "i", "a", ".", "g", "o", "v", ".", "i", "n">>, 9500>>,
      <<<<"p", "i", "b", ".", "g", "o", "v", ".", "i", "n">>, 9500>>,
      <<<<"n", "d", "m", "a", ".", "g", "o", "v", ".", "i", "n">>, 9500>>,
      <<<<"m", "h", "a", ".", "g", "o", "v", ".", "i", "n">>, 9500>>,
      <<<<"m", "o", "h", "f", "w", ".", "g", "o", "v", ".", "i", "n">>, 9500>>,
      <<<<"i", "c", "m", "r", ".", "g", "o", "v", ".", "i", "n">>, 9300>>,
      <<<<"i", "m", "d", ".", "g", "o", "v", ".", "i", "n">>, 9300>>,
      <<<<"i", "n", "c", "o", "i", "s", ".", "g", "o", "v", ".", "i", "n">>, 9300>>,
      <<<<"c", "d", "c", ".", "g", "o", "v">>, 9500>>,
      <<<<"f", "e", "m", "a", ".", "g", "o", "v">>, 9500>>,
      <<<<"n", "i", "h", ".", "g", "o", "v">>, 9500>>,
      <<<<"f", "d", "a", ".", "g", "o", "v">>, 9500>>,
      <<<<"u", "s", "g", "s", ".", "g", "o", "v">>, 9300>>,
      <<<<"n", "o", "a", "a", ".", "g", "o", "v">>, 9300>>,
      <<<<"g", "o", "v", ".", "u", "k">>, 9300>>,
      <<<<"e", "u", "r", "o", "p", "a", ".", "e", "u">>, 9200>>
    >>

FACTCHECK_DOMAINS ==
    <<
      <<<<"s", "n", "o", "p", "e", "s", ".", "c", "o", "m">>, 9200>>,
      <<<<"p", "o", "l", "i", "t", "i", "f", "a", "c", "t", ".", "c", "o", "m">>, 9200>>,
      <<<<"f", "a", "c", "t", "c", "h", "e", "c", "k", ".", "o", "r", "g">>, 9200>>,
      <<<<"f", "u", "l", "l", "f", "a", "c", "t", ".", "o", "r", "g">>, 9200>>,
      <<<<"b", "o", "o", "m", "l", "i", "v", "e", ".", "i", "n">>, 9000>>,
      <<<<"a", "l", "t", "n", "e", "w", "s", ".", "i", "n">>, 9000>>,
      <<<<"f", "a", "c", "t", "c", "h", "e", "c", "k", "e", "r", ".", "i", "n">>, 9000>>,
      <<<<"t", "h", "e", "q", "u", "i", "n", "t", ".", "c", "o", "m", "/", "n", "e", "w", "s", "/", "w", "e", "b", "q", "o", "o", "f">>, 8800>>,
      <<<<"i", "n", "d", "i", "a", "t", "o", "d", "a", "y", ".", "i", "n", "/", "f", "a", "c", "t", "-", "c", "h", "e", "c", "k">>, 8800>>,
      <<<<"v", "i", "s", "h", "v", "a", "s", "n", "e", "w", "s", ".", "c", "o", "m">>, 8800>>,
      <<<<"n", "e", "w", "s", "c", "h", "e", "c", "k", "e", "r", ".", "i", "n">>, 8800>>,
      <<<<"l", "e", "a", "d", "s", "t", "o", "r", "i", "e", "s", ".", "c", "o", "m">>, 8500>>,
      <<<<"a", "f", "r", "i", "c", "a", "c", "h", "e", "c", "k", ".", "o", "r", "g">>, 8800>>,
      <<<<"c", "h", "e", "q", "u", "e", "a", "d", "o", ".", "c", "o", "m">>, 8800>>
    >>

MAJOR_NEWS_DOMAINS ==
    <<
      <<<<"r", "e", "u", "t", "e", "r", "s", ".", "c", "o", "m">>, 9000>>,
      <<<<"a", "p", "n", "e", "w", "s", ".", "c", "o", "m">>, 9000>>,
      <<<<"a", "f", "p", ".", "c", "o", "m">>, 8800>>,
      <<<<"b", "b", "c", ".", "c", "o", "m">>, 8800>>,
      <<<<"b", "b", "c", ".", "c", "o", ".", "u", "k">>, 8800>>,
      <<<<"t", "h", "e", "g", "u", "a", "r", "d", "i", "a", "n", ".", "c", "o", "m">>, 8500>>,
      <<<<"n", "y", "t", "i", "m", "e", "s", ".", "c", "o", "m">>, 8500>>,
      <<<<"w", "a", "s", "h", "i", "n", "g", "t", "o", "n", "p", "o", "s", "t", ".", "c", "o", "m">>, 8500>>,
      <<<<"e", "c", "o", "n", "o", "m", "i", "s", "t", ".", "c", "o", "m">>, 8500>>,
      <<<<"f", "t", ".", "c", "o", "m">>, 8500>>,
      <<<<"a", "l", "j", "a", "z", "e", "e", "r", "a", ".", "c", "o", "m">>, 8200>>,
      <<<<"t", "h", "e", "h", "i", "n", "d", "u", ".", "c", "o", "m">>, 8500>>,
      <<<<"i", "n", "d", "i", "a", "n", "e", "x", "p", "r", "e", "s", "s", ".", "c", "o", "m">>, 8300>>,
      <<<<"h", "i", "n", "d", "u", "s", "t", "a", "n", "t", "i", "m", "e", "s", ".", "c", "o", "m">>, 8200>>,
      <<<<"n", "d", "t", "v", ".", "c", "o", "m">>, 8200>>,
      <<<<"t", "i", "m", "e", "s", "o", "f", "i", "n", "d", "i", "a", ".", "i", "n", "d", "i", "a", "t", "i", "m", "e", "s", ".", "c", "o", "m">>, 8000>>,
      <<<<"n", "e", "w", "s", "1", "8", ".", "c", "o", "m">>, 7800>>,
      <<<<"f", "i", "r", "s", "t", "p", "o", "s", "t", ".", "c", "o", "m">>, 7800>>,
      <<<<"s", "c", "r", "o", "l", "l", ".", "i", "n">>, 8000>>,
      <<<<"t", "h", "e", "w", "i", "r", "e", ".", "i", "n">>, 8000>>,
      <<<<"t", "h", "e", "p", "r", "i", "n", "t", ".", "i", "n">>, 8000>>
    >>

ACADEMIC_DOMAINS ==
    <<
      <<<<".", "e", "d", "u">>, 8000>>,
      <<<<".", "a", "c", ".", "i", "n">>, 8000>>,
      <<<<".", "a", "c", ".", "u", "k">>, 8000>>,
      <<<<"n", "a", "t", "u", "r", "e", ".", "c", "o", "m">>, 9200>>,
      <<<<"s", "c", "i", "e", "n", "c", "e", ".", "o", "r", "g">>, 9200>>,
      <<<<"s", "c", "i", "e", "n", "c", "e", "d", "i", "r", "e", "c", "t", ".", "c", "o", "m">>, 8800>>,
      <<<<"p", "u", "b", "m", "e", "d", ".", "n", "c", "b", "i", ".", "n", "l", "m", ".", "n", "i", "h", ".", "g", "o", "v">>, 9000>>,
      <<<<"a", "r", "x", "i", "v", ".", "o", "r", "g">>, 7500>>,
      <<<<"m", "e", "d", "r", "x", "i", "v", ".", "o", "r", "g">>, 7200>>,
      <<<<"b", "i", "o", "r", "x", "i", "v", ".", "o", "r", "g">>, 7200>>
    >>

\* the steps of reliability._extract_domain
ReliabilityDomain(url) ==
    IF url = <<>> THEN <<>>
    ELSE LET noscheme(lowered) ==
                 IF StartsWith(lowered, <<"h", "t", "t", "p", "s", ":", "/", "/">>) THEN DropPrefix(lowered, 8)
                 ELSE IF StartsWith(lowered, <<"h", "t", "t", "p", ":", "/", "/">>) THEN DropPrefix(lowered, 7)
                 ELSE lowered
         IN StripWww(UpTo(noscheme(Lower(url)), {"/"}))

\* ReliabilityDomain, tabulated once over the URLs of the model
ReliabilityDomainTable == [u \in KnownUrls |-> ReliabilityDomain(u)]

\* reliability._extract_domain
reliability_extract_domain(url) ==
    LET cached(table) == IF url \in DOMAIN table THEN table[url] ELSE ReliabilityDomain(url)
    IN cached(ReliabilityDomainTable)

InTable(tbl, domain) == \E i \in 1..Len(tbl) : tbl[i][1] = domain

TableGet(tbl, domain) == tbl[CHOOSE i \in 1..Len(tbl) : tbl[i][1] = domain][2]

DomainSuffixes ==
    << <<<<".", "e", "d", "u">>, 8000>>, <<<<".", "a", "c", ".", "i", "n">>, 8000>>, <<<<".", "a", "c", ".", "u", "k">>, 8000>>,
       <<<<".", "g", "o", "v">>, 9000>>, <<<<".", "g", "o", "v", ".", "i", "n">>, 9300>> >>

_check_domain_patterns(domain) ==
    IF InTable(OFFICIAL_DOMAINS, domain)
    THEN [score |-> TableGet(OFFICIAL_DOMAINS, domain), source_type |-> "official"]
    ELSE IF InTable(FACTCHECK_DOMAINS, domain)
    THEN [score |-> TableGet(FACTCHECK_DOMAINS, domain), source_type |-> "fact_check"]
    ELSE IF InTable(MAJOR_NEWS_DOMAINS, domain)
    THEN [score |-> TableGet(MAJOR_NEWS_DOMAINS, domain), source_type |-> "news"]
    ELSE IF InTable(ACADEMIC_DOMAINS, domain)
    THEN [score |-> TableGet(ACADEMIC_DOMAINS, domain), source_type |-> "official"]
    ELSE IF \E i \in 1..Len(DomainSuffixes) : EndsWith(domain, DomainSuffixes[i][1])
    THEN [score |-> DomainSuffixes[CHOOSE i \in 1..Len(DomainSuffixes) :
                        /\ EndsWith(domain, DomainSuffixes[i][1])
                        /\ \A j \in 1..(i - 1) : ~EndsWith(domain, DomainSuffixes[j][1])][2],
          source_type |-> "official"]
    ELSE [score |-> 0, source_type |-> "web"]

BASE_SCORES ==
    << <<<<"g", "o", "o", "g", "l", "e", "_", "f", "a", "c", "t", "c", "h", "e", "c", "k">>, 9000>>, <<<<"s", "n", "o", "p", "e", "s">>, 9200>>, <<<<"p", "o", "l", "i", "t", "i", "f", "a", "c", "t">>, 9200>>,
       <<<<"f", "u", "l", "l", "f", "a", "c", "t">>, 9000>>, <<<<"a", "f", "p", "_", "f", "a", "c", "t", "c", "h", "e", "c", "k">>, 9000>>, <<<<"r", "e", "u", "t", "e", "r", "s", "_", "f", "a", "c", "t", "c", "h", "e", "c", "k">>, 9000>>,
       <<<<"f", "a", "c", "t", "c", "h", "e", "c", "k", "_", "a", "g", "g", "r", "e", "g", "a", "t", "o", "r">>, 9000>>, <<<<"n", "e", "w", "s", "a", "p", "i">>, 7000>>, <<<<"t", "a", "v", "i", "l", "y">>, 6000>>,
       <<<<"w", "i", "k", "i", "p", "e", "d", "i", "a">>, 7500>> >>

\* the first MAJOR_NEWS_DOMAINS entry whose first label occurs in the source name
NewsOutletMatch(source_lower) ==
    {i \in 1..Len(MAJOR_NEWS_DOMAINS) :
        Contains(source_lower, UpTo(MAJOR_NEWS_DOMAINS[i][1], {"."}))}

\* SourceReliabilityScorer.score
score(url, source_name, tool_source) ==
    LET rate(pattern, base_score, outlets) ==
            IF pattern.score > 0 THEN pattern
            ELSE IF tool_source = <<"g", "o", "o", "g", "l", "e", "_", "f", "a", "c", "t", "c", "h", "e", "c", "k">>
            THEN [score |-> base_score, source_type |-> "fact_check"]
            ELSE IF tool_source = <<"w", "i", "k", "i", "p", "e", "d", "i", "a">>
            THEN [score |-> 7500, source_type |-> "wikipedia"]
            ELSE IF tool_source = <<"n", "e", "w", "s", "a", "p", "i">>
            THEN IF outlets # {}
                 THEN [score |-> MAJOR_NEWS_DOMAINS[CHOOSE i \in outlets :
                                     \A j \in outlets : i <= j][2],
                       source_type |-> "news"]
                 ELSE [score |-> 6500, source_type |-> "news"]
            ELSE [score |-> base_score, source_type |-> "web"]
    IN rate(_check_domain_patterns(reliability_extract_domain(url)),
            IF InTable(BASE_SCORES, tool_source)
            THEN TableGet(BASE_SCORES, tool_source) ELSE 5000,
            NewsOutletMatch(Lower(source_name)))

\* result.source.split(":")[0] if ":" in result.source else result.source
ToolSource(source) == UpTo(source, {":"})

\* the arguments the search results of the model are scored with
KnownScoreArgs == {<<r.url, r.title, ToolSource(r.source)>> : r \in KnownResults}

\* score, tabulated once over them
ScoreTable == [a \in KnownScoreArgs |-> score(a[1], a[2], a[3])]

\* get_reliability_score: the singleton scorer's score
get_reliability_score(url, source_name, tool_source) ==
    LET cached(table, args) == IF args \in DOMAIN table THEN table[args]
                               ELSE score(url, source_name, tool_source)
    IN cached(ScoreTable, <<url, source_name, tool_source>>)

\* result.snippet[:100].lower().strip(), tabulated once over the snippets of the model
SnippetKeyTable == [t \in {r.snippet : r \in KnownResults} |-> Strip(Lower(Prefix(t, 100)))]

ScraperOutcomes(tool) == {Raised, Returned(<<>>), Returned(ScraperResults(tool))}

RECURSIVE Concat(_)
\* list.extend over a list of lists
Concat(lists) == IF lists = <<>> THEN <<>> ELSE Head(lists) \o Concat(Tail(lists))

\* AggregatedFactCheckTool.search: gather(..., return_exceptions=True) over the
\* scrapers, keeping what is a list
AggregatedSearch(sub) ==
    Concat([i \in 1..Len(AggregatorTools) |->
              IF sub[i].status = "returned" THEN sub[i].value ELSE <<>>])

\* what the aggregator adapter may produce: it absorbs every scraper failure
AggregatorOutcomes ==
    { Returned(AggregatedSearch(<<a, b, c, d, e>>)) :
        a \in ScraperOutcomes("snopes"), b \in ScraperOutcomes("politifact"),
        c \in ScraperOutcomes("fullfact"), d \in ScraperOutcomes("afp_factcheck"),
        e \in ScraperOutcomes("reuters_factcheck") }

AdapterOutcomes(name) ==
    CASE name = "tavily" -> {Raised, Returned(<<>>), Returned(TavilyResults)}
      [] name = "tavily_secondary" -> {Raised, Returned(<<>>), Returned(TavilySecondaryResults)}
      [] name = "factcheck" -> {Raised, Returned(<<>>), Returned(GoogleFactCheckResults)}
      [] name = "factcheck_aggregator" -> AggregatorOutcomes
      [] name = "news" -> {Raised, Returned(<<>>), Returned(NewsResults)}
      [] name = "wikipedia" -> {Raised, Returned(<<>>), Returned(WikipediaResults)}

(***************************************************************************)
(* graph/nodes.py: de-duplication, ranking and the search stage.           *)
(***************************************************************************)
\* result.snippet[:100].lower().strip()
SnippetKey(r) ==
    IF r.snippet \in DOMAIN SnippetKeyTable THEN SnippetKeyTable[r.snippet]
    ELSE Strip(Lower(Prefix(r.snippet, 100)))

\* a variant that counts under the host name as written, "www." included
DomainCount_unstripped(kept, domain) ==
    Cardinality({i \in 1..Len(kept) : Lower(Netloc(kept[i].url)) = domain})

\* domain_counts.get(domain, 0) after the results in kept were appended
DomainCount(kept, domain) ==
    Cardinality({i \in 1..Len(kept) : _extract_domain(kept[i].url) = domain})

RECURSIVE DedupFrom(_, _, _)
DedupFrom(results, max_per_domain, kept) ==
    IF results = <<>> THEN kept
    ELSE LET r == Head(results)
             domain == _extract_domain(r.url)
         IN IF domain # <<>> /\ DomainCount(kept, domain) >= max_per_domain
            THEN DedupFrom(Tail(results), max_per_domain, kept)
            ELSE IF \E i \in 1..Len(kept) : SnippetKey(kept[i]) = SnippetKey(r)
            THEN DedupFrom(Tail(results), max_per_domain, kept)
            ELSE DedupFrom(Tail(results), max_per_domain, Append(kept, r))

_deduplicate_results(results, max_per_domain) == DedupFrom(results, max_per_domain, <<>>)

\* get_score of _rank_by_reliability
get_score(r) == get_reliability_score(r.url, r.title, ToolSource(r.source)).score

RECURSIVE InsertByScore_before(_, _)
\* a variant that inserts r before the elements of equal score
InsertByScore_before(sorted, r) ==
    IF sorted = <<>> THEN <<r>>
    ELSE IF get_score(Head(sorted)) > get_score(r)
         THEN <<Head(sorted)>> \o InsertByScore_before(Tail(sorted), r)
         ELSE <<r>> \o sorted

RECURSIVE InsertByScore(_, _)
\* insert r behind every element whose score is not lower: a stable descending sort
InsertByScore(sorted, r) ==
    IF sorted = <<>> THEN <<r>>
    ELSE IF get_score(Head(sorted)) >= get_score(r)
         THEN <<Head(sorted)>> \o InsertByScore(Tail(sorted), r)
         ELSE <<r>> \o sorted

RECURSIVE _rank_by_reliability(_)
\* sorted(results, key=get_score, reverse=True)
_rank_by_reliability(results) ==
    IF results = <<>> THEN <<>>
    ELSE InsertByScore(_rank_by_reliability(SubSeq(results, 1, Len(results) - 1)),
                       results[Len(results)])

\* a variant without the cap of min(1.0, ...)
calculate_source_diversity_uncapped(search_results) ==
    IF search_results = <<>> THEN 0
    ELSE LET n == Len(search_results)
             dom(i) == reliability_extract_domain(search_results[i].url)
             domains == {dom(i) : i \in 1..n} \ {<<>>}
             count(d) == Cardinality({i \in 1..n : dom(i) = d})
             source_types == {get_reliability_score(search_results[i].url,
                                                    search_results[i].title,
                                                    ToolSource(search_results[i].source)).source_type :
                                i \in 1..n}
             unique_domains == Cardinality(domains)
             base == (unique_domains * 6000) \div n
             domain_score == IF base > 5000 THEN 5000 ELSE base
             max_count == IF domains = {} THEN 0
                          ELSE count(CHOOSE d \in domains : \A x \in domains : count(x) <= count(d))
             penalised == IF 10 * max_count > 4 * n
                          THEN (domain_score * (14 * n - 10 * max_count)) \div (10 * n)
                          ELSE domain_score
             ideal_types == {"fact_check", "news", "official", "wikipedia", "web"}
             type_score == Cardinality(source_types \cap ideal_types) * 1000
                           + (IF "fact_check" \in source_types THEN 1000 ELSE 0)
                           + (IF "official" \in source_types THEN 1000 ELSE 0)
             total == penalised + type_score
             capped == total
         IN ((capped + 5) \div 10) * 10


\* calculate_source_diversity, in units of 1e-4
calculate_source_diversity(search_results) ==
    IF search_results = <<>> THEN 0
    ELSE LET n == Len(search_results)
             dom(i) == reliability_extract_domain(search_results[i].url)
             domains == {dom(i) : i \in 1..n} \ {<<>>}
             count(d) == Cardinality({i \in 1..n : dom(i) = d})
             source_types == {get_reliability_score(search_results[i].url,
                                                    search_results[i].title,
                                                    ToolSource(search_results[i].source)).source_type :
                                i \in 1..n}
             unique_domains == Cardinality(domains)
             base == (unique_domains * 6000) \div n
             domain_score == IF base > 5000 THEN 5000 ELSE base
             max_count == IF domains = {} THEN 0
                          ELSE count(CHOOSE d \in domains : \A x \in domains : count(x) <= count(d))
             penalised == IF 10 * max_count > 4 * n
                          THEN (domain_score * (14 * n - 10 * max_count)) \div (10 * n)
                          ELSE domain_score
             ideal_types == {"fact_check", "news", "official", "wikipedia", "web"}
             type_score == Cardinality(source_types \cap ideal_types) * 1000
                           + (IF "fact_check" \in source_types THEN 1000 ELSE 0)
                           + (IF "official" \in source_types THEN 1000 ELSE 0)
             total == penalised + type_score
             capped == IF total > 10000 THEN 10000 ELSE total
         IN ((capped + 5) \div 10) * 10

(***************************************************************************)
(* Values decoded from JSON.  t is the JSON type; s holds a string, n a    *)
(* number (confidences in units of 1e-4), a boolean as 0/1 or the size of  *)
(* an object, items the elements of an array.                              *)
(***************************************************************************)
JStr(s) == [t |-> "str", s |-> s, n |-> 0, items |-> <<>>]
JNum(n) == [t |-> "num", s |-> <<>>, n |-> n, items |-> <<>>]
JBool(b) == [t |-> "bool", s |-> <<>>, n |-> IF b THEN 1 ELSE 0, items |-> <<>>]
JNull == [t |-> "null", s |-> <<>>, n |-> 0, items |-> <<>>]
JList(items) == [t |-> "list", s |-> <<>>, n |-> 0, items |-> items]
JObject(size) == [t |-> "dict", s |-> <<>>, n |-> size, items |-> <<>>]

\* bool(v) of Python
Truthy(v) ==
    CASE v.t = "str" -> v.s # <<>>
      [] v.t = "num" -> v.n # 0
      [] v.t = "bool" -> v.n = 1
      [] v.t = "null" -> FALSE
      [] v.t = "list" -> v.items # <<>>
      [] v.t = "dict" -> v.n # 0

(***************************************************************************)
(* The state dict of run_factcheck_pipeline.  None is <<>> for the claim   *)
(* and the error and "None" for the enums; confidences and scores are in   *)
(* units of 1e-4.                                                          *)
(***************************************************************************)
Claim(text, language, crisis_type, extracted_entities) ==
    [text |-> text, language |-> language, crisis_type |-> crisis_type,
     extracted_entities |-> extracted_entities]

\* the state built at api/main.py:127
InitialState(raw_input, language) ==
    [raw_input |-> raw_input, language |-> language, claim |-> <<>>,
     search_results |-> <<>>, evidence |-> <<>>, verdict |-> "None",
     confidence |-> 0, severity |-> "None", explanation |-> JStr(<<>>),
     explanation_hindi |-> JNull, correction |-> JNull, sources_checked |-> 0,
     error |-> <<>>]

\* dict.update(res)
Update(d, res) ==
    [k \in DOMAIN d \cup DOMAIN res |-> IF k \in DOMAIN res THEN res[k] ELSE d[k]]

\* dict.get(key, default)
DictGetOr(d, key, default) == IF key \in DOMAIN d THEN d[key] ELSE default

\* the task list search_sources builds, by adapter name
BuildTasks(st, is_available) ==
    LET queries == DictGetOr(st, "_search_queries", <<JStr(st.claim[1].text)>>)
        secondary_query == IF Len(queries) > 1 THEN queries[2] ELSE JNull
    IN (IF is_available.tavily
        THEN <<"tavily">> \o (IF Truthy(secondary_query) THEN <<"tavily_secondary">> ELSE <<>>)
        ELSE <<>>)
       \o (IF is_available.factcheck THEN <<"factcheck">> ELSE <<>>)
       \o <<"factcheck_aggregator">>
       \o (IF is_available.news THEN <<"news">> ELSE <<>>)
       \o <<"wikipedia">>

\* a gather that lets the first exception discard what the siblings returned
Collect_until_exception(outcomes) ==
    IF \E i \in 1..Len(outcomes) : outcomes[i].status = "raised" THEN <<>>
    ELSE Concat([i \in 1..Len(outcomes) |-> outcomes[i].value])

\* the loop over zip(tasks, results) after gather(..., return_exceptions=True):
\* an exception is printed, a non-empty list extends all_results
Collect(outcomes) ==
    Concat([i \in 1..Len(outcomes) |->
              IF outcomes[i].status = "returned" THEN outcomes[i].value ELSE <<>>])

\* search_sources from the gathered results on
SearchReturn(all_results) ==
    LET deduplicated == _deduplicate_results(all_results, 3)
        ranked == _rank_by_reliability(deduplicated)
    IN [search_results |-> ranked,
        sources_checked |-> Len(ranked),
        source_diversity |-> calculate_source_diversity(ranked),
        _raw_results_count |-> Len(all_results),
        _deduplicated_count |-> Len(deduplicated)]

\* search_sources, given what each of its tasks produced
search_sources(st, outcomes) ==
    IF st.claim = <<>>
    THEN [search_results |-> <<>>, sources_checked |-> 0, source_diversity |-> 0]
    ELSE SearchReturn(Collect(outcomes))

(***************************************************************************)
(* SpecSearch: one call of search_sources.  Its tasks run concurrently and *)
(* end in any order; gather resumes the caller once all of them ended.     *)
(***************************************************************************)
CacheOff == cache = <<>> /\ now = 0 /\ persist_path = FALSE /\ ret = NoRet

AvailConfigs == [tavily : BOOLEAN, factcheck : BOOLEAN, news : BOOLEAN]

\* reasoning calls made so far per stage, and the stages whose call raised
NoLlmCalls ==
    [extract |-> 0, queries |-> 0, synthesis |-> 0, explanation |-> 0, raised |-> {}]

NoResult == [status |-> "running"]

SearchClaim == Claim(<<"5", "G", " ", "t", "o", "w", "e", "r", "s", " ", "s", "p", "r", "e", "a", "d", " ", "t", "h", "e", " ", "c", "o", "r", "o", "n", "a", "v", "i", "r", "u", "s">>, "en", <<>>, <<>>)

\* the query lists the search stage is entered with
SearchQueries ==
    { <<JStr(SearchClaim.text)>>,
      <<JStr(SearchClaim.text), JStr(SearchClaim.text \o <<" ", "f", "a", "c", "t", " ", "c", "h", "e", "c", "k">>)>> }

InitSearch ==
    /\ CacheOff
    /\ ThreadsOff
    /\ CallsOff
    /\ ppc = "search"
    /\ \E queries \in SearchQueries :
         state = Update(InitialState(SearchClaim.text, "en"),
                        [claim |-> <<SearchClaim>>, _search_queries |-> queries])
    /\ avail \in AvailConfigs
    /\ tasks = <<>>
    /\ outcome = <<>>
    /\ llm_calls = NoLlmCalls
    /\ result = NoResult

\* the tasks are created and handed to asyncio.gather
SearchStart ==
    /\ ppc = "search"
    /\ ppc' = "gather"
    /\ tasks' = BuildTasks(state, avail)
    /\ outcome' = [i \in 1..Len(tasks') |-> Pending]
    /\ UNCHANGED <<state, avail, llm_calls, result, cacheVars, threadVars, callVars>>

\* one adapter task ends, by raising or by returning its results
AdapterEnds(i) ==
    /\ ppc = "gather"
    /\ i \in 1..Len(tasks)
    /\ outcome[i].status = "pending"
    /\ \E o \in AdapterOutcomes(tasks[i]) : outcome' = [outcome EXCEPT ![i] = o]
    /\ UNCHANGED <<ppc, state, avail, tasks, llm_calls, result, cacheVars, threadVars,
                   events, call, scorerVars, queueVars, endpointVars, batchVars>>

\* the step with the order of completion left out of the state
AdapterDone(i) == AdapterEnds(i) /\ UNCHANGED completed

\* a gather that hands back the results in the order the tasks ended
Gathered_as_completed(outcomes, order) ==
    [k \in 1..Len(order) |-> outcomes[order[k]]]

\* asyncio.gather(*aws, return_exceptions=True): the list of results is in the
\* order of the awaitables passed in, whatever the order they ended in
Gathered(outcomes, order) == outcomes

\* gather returns once no task is pending; the rest of search_sources runs
SearchGather ==
    /\ ppc = "gather"
    /\ \A i \in 1..Len(tasks) : outcome[i].status # "pending"
    /\ ppc' = "searched"
    /\ state' = Update(state, search_sources(state, Gathered(outcome, completed)))
    /\ UNCHANGED <<avail, tasks, outcome, llm_calls, result, cacheVars, threadVars, callVars>>

NextSearch ==
    \/ SearchStart
    \/ \E i \in 1..6 : AdapterDone(i)
    \/ SearchGather

SpecSearch == InitSearch /\ [][NextSearch]_vars

(***************************************************************************)
(* The reasoning capability (llm_manager.generate) and the tolerant parser *)
(* of its replies.  A call raises or returns a text; the text is described *)
(* by its form and its payload:                                            *)
(*   form   "empty"         the empty string                               *)
(*          "bare"          the payload and nothing else                   *)
(*          "fence_json"    the payload inside ```json ... ```             *)
(*          "fence"         the payload inside ``` ... ```                 *)
(*          "fence_JSON"    the payload inside ```JSON ... ```             *)
(*          "prose_around"  the payload between sentences without braces   *)
(*   kind   "dict"          a JSON object with the given fields            *)
(*          "list"          a JSON array of scalars                        *)
(*          "scalar"        a JSON number, string or literal               *)
(*          "garbage"       text that is not JSON, truncated JSON included *)
(***************************************************************************)
NoFields == [k \in {} |-> JNull]

LlmRaises == [raised |-> TRUE, form |-> "empty", kind |-> "garbage", fields |-> NoFields]

Reply(form, kind, fields) == [raised |-> FALSE, form |-> form, kind |-> kind, fields |-> fields]

Parsed(kind, fields) == [kind |-> kind, fields |-> fields]

\* nodes._parse_json_response: json.loads of the unfenced text; when that
\* fails, json.loads of the span from the first "{" to the last "}"; else {}
_parse_json_response(reply) ==
    IF reply.form = "empty" THEN Parsed("dict", NoFields)
    ELSE IF reply.form \in {"bare", "fence_json", "fence", "fence_JSON"}
    THEN IF reply.kind = "garbage" THEN Parsed("dict", NoFields)
         ELSE Parsed(reply.kind, reply.fields)
    ELSE IF reply.kind = "dict" THEN Parsed("dict", reply.fields)
         ELSE Parsed("dict", NoFields)

\* parsed.get(key, default); only called once parsed is known to be a dict
ParsedGet(parsed, key, default) ==
    IF key \in DOMAIN parsed.fields THEN parsed.fields[key] ELSE default

(***************************************************************************)
(* services/confidence.py.  Confidences are in units of 1e-4.              *)
(***************************************************************************)
PSEUDOSCIENCE_KEYWORDS ==
    << <<"u", "r", "i", "n", "e", " ", "c", "u", "r", "e">>, <<"c", "o", "w", " ", "u", "r", "i", "n", "e">>, <<"g", "o", "m", "u", "t", "r", "a">>, <<"u", "r", "i", "n", "e", " ", "t", "h", "e", "r", "a", "p", "y">>,
       <<"b", "l", "e", "a", "c", "h", " ", "c", "u", "r", "e">>, <<"m", "m", "s", " ", "c", "u", "r", "e">>, <<"m", "i", "r", "a", "c", "l", "e", " ", "m", "i", "n", "e", "r", "a", "l">>,
       <<"5", "g", " ", "c", "a", "u", "s", "e">>, <<"5", "g", " ", "c", "o", "r", "o", "n", "a">>, <<"5", "g", " ", "c", "o", "v", "i", "d">>,
       <<"v", "a", "c", "c", "i", "n", "e", " ", "a", "u", "t", "i", "s", "m">>, <<"v", "a", "c", "c", "i", "n", "e", "s", " ", "c", "a", "u", "s", "e", " ", "a", "u", "t", "i", "s", "m">>,
       <<"f", "l", "a", "t", " ", "e", "a", "r", "t", "h">>, <<"e", "a", "r", "t", "h", " ", "i", "s", " ", "f", "l", "a", "t">>,
       <<"h", "o", "m", "e", "o", "p", "a", "t", "h", "y", " ", "c", "u", "r", "e", " ", "c", "a", "n", "c", "e", "r">>, <<"h", "o", "m", "e", "o", "p", "a", "t", "h", "i", "c", " ", "c", "a", "n", "c", "e", "r">>,
       <<"c", "r", "y", "s", "t", "a", "l", " ", "h", "e", "a", "l">>, <<"h", "e", "a", "l", "i", "n", "g", " ", "c", "r", "y", "s", "t", "a", "l", "s", " ", "c", "u", "r", "e">>,
       <<"e", "s", "s", "e", "n", "t", "i", "a", "l", " ", "o", "i", "l", " ", "c", "u", "r", "e">>, <<"o", "i", "l", "s", " ", "c", "u", "r", "e", " ", "c", "a", "n", "c", "e", "r">>,
       <<"a", "l", "k", "a", "l", "i", "n", "e", " ", "w", "a", "t", "e", "r", " ", "c", "u", "r", "e">>, <<"a", "l", "k", "a", "l", "i", "n", "e", " ", "d", "i", "e", "t", " ", "c", "a", "n", "c", "e", "r">>,
       <<"b", "l", "a", "c", "k", " ", "s", "a", "l", "v", "e">>, <<"c", "o", "l", "l", "o", "i", "d", "a", "l", " ", "s", "i", "l", "v", "e", "r", " ", "c", "u", "r", "e">>,
       <<"t", "u", "r", "p", "e", "n", "t", "i", "n", "e", " ", "c", "u", "r", "e">>, <<"k", "e", "r", "o", "s", "e", "n", "e", " ", "m", "e", "d", "i", "c", "i", "n", "e">>,
       <<"m", "a", "g", "n", "e", "t", "i", "c", " ", "t", "h", "e", "r", "a", "p", "y", " ", "c", "u", "r", "e">>, <<"m", "a", "g", "n", "e", "t", " ", "h", "e", "a", "l">> >>

HIGH_RELIABILITY_THRESHOLD == 8000
FACTCHECK_BOOST == 2000
OFFICIAL_BOOST == 1500
AGREEMENT_BOOST_PER_SOURCE == 600
CONFLICT_PENALTY == 1500
MIN_CONFIDENCE == 1000
\* a variant that lets the confidence reach 1.0
MAX_CONFIDENCE_one == 100 * 100

MAX_CONFIDENCE == 9800
PSEUDOSCIENCE_MIN_CONFIDENCE == 9000

Min(a, b) == IF a < b THEN a ELSE b
Max(a, b) == IF a > b THEN a ELSE b

CountIf(evidence, P(_)) == Cardinality({i \in 1..Len(evidence) : P(evidence[i])})

\* ConfidenceCalibrator.calibrate
calibrate(base_confidence, verdict, evidence, claim_text) ==
    IF evidence = <<>> THEN Max(MIN_CONFIDENCE, Min(base_confidence, 4000))
    ELSE
    LET falseish == verdict \in {"false", "mostly_false"}
        claim_lower == Lower(claim_text)
        pseudo == /\ claim_text # <<>>
                  /\ falseish
                  /\ \E k \in 1..Len(PSEUDOSCIENCE_KEYWORDS) :
                        Contains(claim_lower, PSEUDOSCIENCE_KEYWORDS[k])
        supports == CountIf(evidence, LAMBDA e : e.stance = "supports")
        refutes == CountIf(evidence, LAMBDA e : e.stance = "refutes")
        high_rel_supports ==
            CountIf(evidence, LAMBDA e : e.reliability_score >= HIGH_RELIABILITY_THRESHOLD
                                         /\ e.stance = "supports")
        high_rel_refutes ==
            CountIf(evidence, LAMBDA e : e.reliability_score >= HIGH_RELIABILITY_THRESHOLD
                                         /\ e.stance = "refutes")
        factcheck_refutes ==
            CountIf(evidence, LAMBDA e : e.source_type = "fact_check" /\ e.stance = "refutes")
        official_refutes ==
            CountIf(evidence, LAMBDA e : e.source_type = "official" /\ e.stance = "refutes")
        \* the successive assignments to confidence, each from the value before it
        pseudoscience(c) == IF pseudo THEN Max(c, PSEUDOSCIENCE_MIN_CONFIDENCE) ELSE c
        factcheck(c) == IF factcheck_refutes > 0 /\ falseish
                        THEN c + FACTCHECK_BOOST * factcheck_refutes ELSE c
        official(c) == IF official_refutes > 0 THEN c + OFFICIAL_BOOST * official_refutes ELSE c
        agreement(c) == IF falseish /\ high_rel_refutes >= 3
                        THEN c + AGREEMENT_BOOST_PER_SOURCE * (high_rel_refutes - 2)
                        ELSE IF verdict \in {"true", "mostly_true"} /\ high_rel_supports >= 3
                        THEN c + AGREEMENT_BOOST_PER_SOURCE * (high_rel_supports - 2)
                        ELSE c
        conflict(c, lo, hi) == IF lo > 0 /\ 2 * lo > hi
                               THEN c - (CONFLICT_PENALTY * lo) \div hi ELSE c
        limited(c) == IF Len(evidence) < 3 THEN (c * 85) \div 100 ELSE c
        unverifiable(c) == IF verdict = "unverifiable" THEN Min(c, 5000) ELSE c
        clamp(c) == Max(MIN_CONFIDENCE, Min(c, MAX_CONFIDENCE))
    IN clamp(unverifiable(limited(
           conflict(agreement(official(factcheck(pseudoscience(base_confidence)))),
                    Min(supports, refutes), Max(supports, refutes)))))

\* a variant whose short-circuit has no lower bound
calibrate_confidence_unfloored(base_confidence, verdict, evidence, claim_text) ==
    IF evidence = <<>> THEN Min(base_confidence, 4000)
    ELSE calibrate(base_confidence, verdict, evidence, claim_text)

calibrate_confidence(base_confidence, verdict, evidence, claim_text) ==
    calibrate(base_confidence, verdict, evidence, claim_text)

VERDICT_UPGRADE_THRESHOLD == 8000

\* a variant that upgrades only above the threshold
calibrate_verdict_above(verdict, confidence) ==
    IF confidence > VERDICT_UPGRADE_THRESHOLD /\ verdict = "mostly_false" THEN "false"
    ELSE IF confidence > VERDICT_UPGRADE_THRESHOLD /\ verdict = "mostly_true" THEN "true"
    ELSE verdict

\* calibrate_verdict: a hedged verdict at or above the threshold becomes definitive
calibrate_verdict(verdict, confidence) ==
    IF confidence >= VERDICT_UPGRADE_THRESHOLD /\ verdict = "mostly_false" THEN "false"
    ELSE IF confidence >= VERDICT_UPGRADE_THRESHOLD /\ verdict = "mostly_true" THEN "true"
    ELSE verdict

(***************************************************************************)
(* graph/nodes.py: the stages around the search.  Each takes the state     *)
(* dict and what its reasoning call did, and gives the dict it returns.    *)
(***************************************************************************)
\* parsed.get("is_checkworthy") == False
IsFalse(v) == (v.t = "bool" \/ v.t = "num") /\ v.n = 0

\* a variant of the except branch that rejects the input
ClaimFallback_rejects(raw_input, language) ==
    [claim |-> <<>>, error |-> <<"C", "l", "a", "i", "m", " ", "e", "x", "t", "r", "a", "c", "t", "i", "o", "n", " ", "f", "a", "i", "l", "e", "d">>]

\* the except branch of extract_claim
ClaimFallback(raw_input, language) ==
    [claim |-> <<Claim(raw_input, language, <<>>, <<>>)>>, error |-> <<>>]

\* extract_claim asks the reasoning capability unless the input is short
ExtractCallsLlm(st) == Len(Strip(st.raw_input)) >= 10

extract_claim(st, llm) ==
    LET raw_input == st.raw_input
        language == DictGetOr(st, "language", "en")
        parsed == _parse_json_response(llm)
        checkworthy == ParsedGet(parsed, "is_checkworthy", JNull)
        reason == ParsedGet(parsed, "reason", JStr(<<>>))
        extracted == ParsedGet(parsed, "main_claim", JNull)
        main_claim == IF Truthy(extracted) THEN extracted ELSE JStr(raw_input)
        crisis_type == ParsedGet(parsed, "crisis_type", JNull)
        entities == ParsedGet(parsed, "entities", JList(<<>>))
    IN IF ~ExtractCallsLlm(st)
       THEN [claim |-> <<Claim(Strip(raw_input), language, <<>>, <<>>)>>, error |-> <<>>]
       ELSE IF llm.raised \/ parsed.kind # "dict" THEN ClaimFallback(raw_input, language)
       ELSE IF IsFalse(checkworthy) /\ reason.t # "str" THEN ClaimFallback(raw_input, language)
       ELSE IF IsFalse(checkworthy) /\ Contains(Lower(reason.s), <<"o", "p", "i", "n", "i", "o", "n">>)
       THEN [claim |-> <<>>, error |-> <<"C", "l", "a", "i", "m", " ", "n", "o", "t", " ", "c", "h", "e", "c", "k", "w", "o", "r", "t", "h", "y", ":", " ">> \o reason.s]
       ELSE IF /\ main_claim.t = "str"
               /\ crisis_type.t \in {"str", "null"}
               /\ entities.t = "list"
       THEN [claim |-> <<Claim(main_claim.s, language, crisis_type.s, entities.items)>>,
             error |-> <<>>]
       ELSE ClaimFallback(raw_input, language)

\* generate_search_queries asks the reasoning capability for a claim that is not simple
QueriesCallLlm(st) ==
    /\ st.claim # <<>>
    /\ ~(Len(st.claim[1].text) < 100 \/ Len(st.claim[1].extracted_entities) < 3)

generate_search_queries(st, llm) ==
    IF st.claim = <<>> THEN [_search_queries |-> <<>>]
    ELSE
    LET claim == st.claim[1]
        entities == claim.extracted_entities
        parsed == _parse_json_response(llm)
        listed == ParsedGet(parsed, "queries", JList(<<>>))
        fallback == [_search_queries |-> <<JStr(claim.text)>>]
    IN IF ~QueriesCallLlm(st)
       THEN [_search_queries |->
                <<JStr(claim.text), JStr(claim.text \o <<" ", "f", "a", "c", "t", " ", "c", "h", "e", "c", "k">>),
                  JStr(claim.text \o <<" ", "t", "r", "u", "e", " ", "o", "r", " ", "f", "a", "l", "s", "e">>)>>
                \o (IF entities # <<>>
                    THEN <<JStr(Join(SubSeq(entities, 1, Min(3, Len(entities)))) \o <<" ", "n", "e", "w", "s">>)>>
                    ELSE <<>>)]
       ELSE IF llm.raised \/ parsed.kind # "dict" THEN fallback
       ELSE IF listed.t \in {"null", "num", "bool"} THEN fallback
       ELSE IF listed.t \in {"str", "dict"} THEN fallback
       ELSE IF \E i \in 1..Len(listed.items) : "query" \notin DOMAIN listed.items[i]
       THEN fallback
       ELSE IF listed.items = <<>> THEN fallback
       ELSE [_search_queries |-> [i \in 1..Len(listed.items) |-> listed.items[i].query]]

Evidence(source_name, source_type, source_url, snippet, stance, reliability_score) ==
    [source_name |-> source_name, source_type |-> source_type,
     source_url |-> source_url, snippet |-> snippet, stance |-> stance,
     reliability_score |-> reliability_score, published_date |-> <<>>]

\* what pydantic accepts as an Evidence
ValidEvidence(e) ==
    /\ e.source_type \in {"fact_check", "news", "official", "wikipedia", "web"}
    /\ e.stance \in {"supports", "refutes", "neutral"}
    /\ e.reliability_score >= 0 /\ e.reliability_score <= 10000

\* evidence built from every search result, without the limit of five
FallbackEvidence_unlimited(search_results) ==
    LET evidence(sr, rel) ==
            Evidence(IF sr.title # <<>> THEN Prefix(sr.title, 50) ELSE sr.source,
                     rel.source_type, sr.url,
                     IF sr.snippet # <<>> THEN Prefix(sr.snippet, 300) ELSE <<>>,
                     "neutral", rel.score)
    IN [i \in 1..Len(search_results) |->
           evidence(search_results[i],
                    get_reliability_score(search_results[i].url, search_results[i].title,
                                          ToolSource(search_results[i].source)))]

\* a variant that takes the results from the end of the list, the last one first
FallbackEvidence_reversed(search_results) ==
    LET evidence(sr, rel) ==
            Evidence(IF sr.title # <<>> THEN Prefix(sr.title, 50) ELSE sr.source,
                     rel.source_type, sr.url,
                     IF sr.snippet # <<>> THEN Prefix(sr.snippet, 300) ELSE <<>>,
                     "neutral", rel.score)
        rated(sr) ==
            evidence(sr, get_reliability_score(sr.url, sr.title, ToolSource(sr.source)))
    IN [i \in 1..Min(5, Len(search_results)) |->
           rated(search_results[Len(search_results) + 1 - i])]

\* evidence built from search_results[:5], every stance neutral
FallbackEvidence(search_results) ==
    LET evidence(sr, rel) ==
            Evidence(IF sr.title # <<>> THEN Prefix(sr.title, 50) ELSE sr.source,
                     rel.source_type, sr.url,
                     IF sr.snippet # <<>> THEN Prefix(sr.snippet, 300) ELSE <<>>,
                     "neutral", rel.score)
    IN [i \in 1..Min(5, Len(search_results)) |->
           evidence(search_results[i],
                    get_reliability_score(search_results[i].url, search_results[i].title,
                                          ToolSource(search_results[i].source)))]

RECURSIVE SumReliability(_)
SumReliability(evidence) ==
    IF evidence = <<>> THEN 0
    ELSE Head(evidence).reliability_score + SumReliability(Tail(evidence))

\* sum(e.reliability_score for e in evidence_list) / len(evidence_list), or 0.0
OverallReliability(evidence) ==
    IF evidence = <<>> THEN 0 ELSE SumReliability(evidence) \div Len(evidence)

VerdictNames ==
    << <<<<"f", "a", "l", "s", "e">>, "false">>, <<<<"m", "o", "s", "t", "l", "y", "_", "f", "a", "l", "s", "e">>, "mostly_false">>, <<<<"m", "i", "x", "e", "d">>, "mixed">>,
       <<<<"m", "o", "s", "t", "l", "y", "_", "t", "r", "u", "e">>, "mostly_true">>, <<<<"t", "r", "u", "e">>, "true">>,
       <<<<"u", "n", "v", "e", "r", "i", "f", "i", "a", "b", "l", "e">>, "unverifiable">> >>

SeverityNames ==
    << <<<<"c", "r", "i", "t", "i", "c", "a", "l">>, "critical">>, <<<<"h", "i", "g", "h">>, "high">>, <<<<"m", "e", "d", "i", "u", "m">>, "medium">>,
       <<<<"l", "o", "w">>, "low">> >>

StanceNames ==
    << <<<<"s", "u", "p", "p", "o", "r", "t", "s">>, "supports">>, <<<<"r", "e", "f", "u", "t", "e", "s">>, "refutes">>, <<<<"n", "e", "u", "t", "r", "a", "l">>, "neutral">> >>

\* map.get(name, default)
NameGet(names, name, default) ==
    IF InTable(names, name) THEN TableGet(names, name) ELSE default

\* finding.get(key, default) on one element of key_findings
FindingGet(finding, key, default) ==
    IF key \in DOMAIN finding THEN finding[key] ELSE default

\* the first search result whose title or source contains the finding's source name
MatchingResults(source_name, search_results) ==
    {i \in 1..Len(search_results) :
        \/ Contains(Lower(search_results[i].title), Lower(source_name))
        \/ Contains(Lower(search_results[i].source), Lower(source_name))}

\* the Evidence built for one finding whose fields have the types the code needs
FindingEvidence(finding, search_results) ==
    LET first_url(matches) ==
            IF matches = {} THEN <<>>
            ELSE search_results[CHOOSE i \in matches : \A j \in matches : i <= j].url
        evidence(source_name, source_url, rel) ==
            Evidence(source_name, rel.source_type, source_url,
                     FindingGet(finding, "finding", JStr(<<>>)).s,
                     NameGet(StanceNames, FindingGet(finding, "stance", JStr(<<"n", "e", "u", "t", "r", "a", "l">>)).s,
                             "invalid"),
                     rel.score)
        rated(source_name, source_url) ==
            evidence(source_name, source_url,
                     get_reliability_score(source_url, source_name, <<"w", "e", "b">>))
        located(source_name) ==
            rated(source_name, first_url(MatchingResults(source_name, search_results)))
    IN located(FindingGet(finding, "source", JStr(<<"U", "n", "k", "n", "o", "w", "n">>)).s)

\* what the try block of synthesize_evidence can evaluate without an exception
FindingWellTyped(finding) ==
    /\ FindingGet(finding, "source", JStr(<<"U", "n", "k", "n", "o", "w", "n">>)).t = "str"
    /\ FindingGet(finding, "finding", JStr(<<>>)).t = "str"
    /\ FindingGet(finding, "stance", JStr(<<"n", "e", "u", "t", "r", "a", "l">>)).t = "str"

\* float(parsed.get("confidence", 0.5)); a string of the model is not a numeral
FloatOk(v) == v.t \in {"num", "bool"}
Float(v) == IF v.t = "bool" THEN v.n * 10000 ELSE v.n

\* the return of synthesize_evidence when there are no search results
NoResultsReturn_zero ==
    [evidence |-> <<>>, verdict |-> "unverifiable", confidence |-> 0,
     severity |-> "medium", source_diversity |-> 0]

NoResultsReturn ==
    [evidence |-> <<>>, verdict |-> "unverifiable", confidence |-> 3000,
     severity |-> "medium", source_diversity |-> 0]

\* the except branch of synthesize_evidence
SynthesisFallback(st) ==
    LET fallback(evidence_list) ==
            IF \A i \in 1..Len(evidence_list) : ValidEvidence(evidence_list[i])
            THEN [evidence |-> evidence_list, verdict |-> "unverifiable",
                  confidence |-> 3000, severity |-> "medium",
                  overall_reliability |-> OverallReliability(evidence_list),
                  source_diversity |-> DictGetOr(st, "source_diversity", 0),
                  _reasoning |-> "error"]
            ELSE [raised |-> TRUE]
    IN fallback(FallbackEvidence(st.search_results))

\* synthesize_evidence asks the reasoning capability when it has a claim and results
SynthesisCallsLlm(st) == st.claim # <<>> /\ DictGetOr(st, "search_results", <<>>) # <<>>

synthesize_evidence(st, llm) ==
    LET well_typed(verdict_v, severity_v, key_findings, confidence_v, reasoning_v) ==
            /\ verdict_v.t = "str"
            /\ severity_v.t = "str"
            /\ Truthy(key_findings) => key_findings.t = "list"
            /\ Truthy(key_findings) =>
                  \A i \in 1..Len(key_findings.items) : FindingWellTyped(key_findings.items[i])
            /\ FloatOk(confidence_v)
            /\ reasoning_v.t = "str"
        evidence_of(key_findings, search_results) ==
            IF Truthy(key_findings)
            THEN [i \in 1..Len(key_findings.items) |->
                     FindingEvidence(key_findings.items[i], search_results)]
            ELSE FallbackEvidence(search_results)
        returned(evidence_list, severity, calibrated_verdict, calibrated_confidence) ==
            [evidence |-> evidence_list,
             verdict |-> calibrated_verdict,
             confidence |-> calibrated_confidence,
             severity |-> severity,
             source_diversity |-> DictGetOr(st, "source_diversity", 0),
             overall_reliability |-> OverallReliability(evidence_list),
             _reasoning |-> "analysis"]
        calibrated(evidence_list, verdict, severity, calibrated_confidence) ==
            returned(evidence_list, severity,
                     calibrate_verdict(verdict, calibrated_confidence),
                     calibrated_confidence)
        built(evidence_list, verdict, severity, confidence_v, fallback) ==
            IF \E i \in 1..Len(evidence_list) : ~ValidEvidence(evidence_list[i])
            THEN fallback
            ELSE calibrated(evidence_list, verdict, severity,
                            calibrate_confidence(Float(confidence_v), verdict, evidence_list,
                                                 st.claim[1].text))
        analysed(search_results, verdict_v, severity_v, key_findings, confidence_v,
                 reasoning_v, fallback) ==
            IF ~well_typed(verdict_v, severity_v, key_findings, confidence_v, reasoning_v)
            THEN fallback
            ELSE built(evidence_of(key_findings, search_results),
                       NameGet(VerdictNames, Lower(verdict_v.s), "unverifiable"),
                       NameGet(SeverityNames, Lower(severity_v.s), "medium"),
                       confidence_v, fallback)
        tried(search_results, parsed, fallback) ==
            IF llm.raised \/ parsed.kind # "dict" THEN fallback
            ELSE analysed(search_results,
                          ParsedGet(parsed, "verdict", JStr(<<"u", "n", "v", "e", "r", "i", "f", "i", "a", "b", "l", "e">>)),
                          ParsedGet(parsed, "severity", JStr(<<"m", "e", "d", "i", "u", "m">>)),
                          ParsedGet(parsed, "key_findings", JList(<<>>)),
                          ParsedGet(parsed, "confidence", JNum(5000)),
                          ParsedGet(parsed, "reasoning", JStr(<<>>)),
                          fallback)
        searched(search_results) ==
            IF search_results = <<>> THEN NoResultsReturn
            ELSE tried(search_results, _parse_json_response(llm), SynthesisFallback(st))
    IN IF st.claim = <<>>
       THEN [evidence |-> <<>>, verdict |-> "unverifiable", confidence |-> 0,
             severity |-> "low", source_diversity |-> 0]
       ELSE searched(DictGetOr(st, "search_results", <<>>))

\* f"This claim has been rated as {verdict.value}."
DefaultExplanation == JStr(<<"T", "h", "i", "s", " ", "c", "l", "a", "i", "m", " ", "h", "a", "s", " ", "b", "e", "e", "n", " ", "r", "a", "t", "e", "d", " ", "a", "s", " ", "s", "u", "c", "h", ".">>)

\* f"This claim has been rated as {verdict.value} with {int(confidence * 100)}% confidence."
HandlerExplanation == JStr(<<"T", "h", "i", "s", " ", "c", "l", "a", "i", "m", " ", "h", "a", "s", " ", "b", "e", "e", "n", " ", "r", "a", "t", "e", "d", " ", "a", "s", " ", "s", "u", "c", "h", " ", "w", "i", "t", "h", " ", "s", "o", "m", "e", " ", "c", "o", "n", "f", "i", "d", "e", "n", "c", "e", ".">>)

\* generate_english / generate_hindi: the parsed reply, {} when the call raised
ExplanationReply(llm) == IF llm.raised THEN Parsed("dict", NoFields) ELSE _parse_json_response(llm)

generate_explanation(st, llm_english, llm_hindi) ==
    LET explained(english_result, hindi_result) ==
            IF english_result.kind # "dict" \/ hindi_result.kind # "dict"
            THEN [explanation |-> HandlerExplanation, explanation_hindi |-> JNull,
                  correction |-> JNull]
            ELSE [explanation |-> ParsedGet(english_result, "explanation", DefaultExplanation),
                  explanation_hindi |-> ParsedGet(hindi_result, "explanation_hindi", JNull),
                  correction |-> ParsedGet(english_result, "correction", JNull)]
    IN IF st.claim = <<>>
       THEN [explanation |-> JStr(<<"U", "n", "a", "b", "l", "e", " ", "t", "o", " ", "p", "r", "o", "c", "e", "s", "s", " ", "t", "h", "e", " ", "c", "l", "a", "i", "m", ".">>),
             explanation_hindi |-> JStr(<<"U", "n", "a", "b", "l", "e", " ", "t", "o", " ", "p", "r", "o", "c", "e", "s", "s", " ", "t", "h", "e", " ", "c", "l", "a", "i", "m", " ", "(", "H", "i", "n", "d", "i", ")", ".">>),
             correction |-> JNull]
       ELSE explained(ExplanationReply(llm_english), ExplanationReply(llm_hindi))

\* what pydantic accepts as the fields of a FactCheckResult
ValidResult(r) ==
    /\ r.verdict \in {"false", "mostly_false", "mixed", "mostly_true", "true", "unverifiable"}
    /\ r.confidence >= 0 /\ r.confidence <= 10000
    /\ r.severity \in {"critical", "high", "medium", "low"}
    /\ r.explanation.t = "str"
    /\ r.explanation_hindi.t \in {"str", "null"}
    /\ r.correction.t \in {"str", "null"}
    /\ r.overall_reliability >= 0 /\ r.overall_reliability <= 10000
    /\ r.source_diversity >= 0 /\ r.source_diversity <= 10000

\* FactCheckResult(...): the object, or the ValidationError of its constructor
FactCheckResult(r) ==
    IF ValidResult(r) THEN [r EXCEPT !.status = "returned"] ELSE [status |-> "raised"]

\* the early return of run_factcheck_pipeline
EarlyResult(st) ==
    FactCheckResult(
        [status |-> "built",
         claim |-> Claim(st.raw_input, st.language, <<>>, <<>>),
         verdict |-> "unverifiable", confidence |-> 0, severity |-> "low",
         explanation |-> IF "error" \notin DOMAIN st THEN JStr(<<"U", "n", "a", "b", "l", "e", " ", "t", "o", " ", "p", "r", "o", "c", "e", "s", "s", " ", "c", "l", "a", "i", "m">>)
                         ELSE IF st.error = <<>> THEN JNull ELSE JStr(st.error),
         explanation_hindi |-> JNull, correction |-> JNull, evidence |-> <<>>,
         sources_checked |-> 0, overall_reliability |-> 0, source_diversity |-> 0])

\* the result built at the end of run_factcheck_pipeline
FinalResult(st) ==
    FactCheckResult(
        [status |-> "built",
         claim |-> st.claim[1],
         verdict |-> DictGetOr(st, "verdict", "unverifiable"),
         confidence |-> DictGetOr(st, "confidence", 0),
         severity |-> DictGetOr(st, "severity", "medium"),
         explanation |-> DictGetOr(st, "explanation", JStr(<<>>)),
         explanation_hindi |-> DictGetOr(st, "explanation_hindi", JNull),
         correction |-> DictGetOr(st, "correction", JNull),
         evidence |-> DictGetOr(st, "evidence", <<>>),
         sources_checked |-> DictGetOr(st, "sources_checked", 0),
         overall_reliability |-> DictGetOr(st, "overall_reliability", 0),
         source_diversity |-> DictGetOr(st, "source_diversity", 0)])

(***************************************************************************)
(* SpecPipeline: one run of run_factcheck_pipeline.  Every stage is one    *)
(* step; what the reasoning capability and the adapters do is chosen from  *)
(* the replies and outcomes below.                                         *)
(***************************************************************************)
LongInput == [i \in 1..104 |-> IF i % 8 = 0 THEN " " ELSE "w"]

RawInputs ==
    { <<" ", " ", "h", "i", " ", " ">>, <<"5", "G", " ", "t", "o", "w", "e", "r", "s", " ", "s", "p", "r", "e", "a", "d", " ", "t", "h", "e", " ", "c", "o", "r", "o", "n", "a", "v", "i", "r", "u", "s">>, <<" ", "I", "s", " ", "5", "G", " ", "d", "a", "n", "g", "e", "r", "o", "u", "s", "?", " ">>, LongInput }

ExtractReplies ==
    << LlmRaises,
       Reply("bare", "dict",
             [main_claim |-> JStr(<<"5", "G", " ", "c", "a", "u", "s", "e", "s", " ", "C", "O", "V", "I", "D", "-", "1", "9">>), crisis_type |-> JStr(<<"h", "e", "a", "l", "t", "h">>),
              entities |-> JList(<<<<"5", "G">>, <<"C", "O", "V", "I", "D", "-", "1", "9">>>>), is_checkworthy |-> JBool(TRUE),
              reason |-> JStr(<<"A", " ", "h", "e", "a", "l", "t", "h", " ", "c", "l", "a", "i", "m">>)]),
       Reply("fence_json", "dict",
             [entities |-> JList(<<<<"5", "G">>, <<"t", "o", "w", "e", "r", "s">>, <<"c", "o", "r", "o", "n", "a", "v", "i", "r", "u", "s">>>>),
              is_checkworthy |-> JBool(TRUE)]),
       Reply("bare", "dict",
             [is_checkworthy |-> JBool(FALSE), reason |-> JStr(<<"P", "u", "r", "e", " ", "O", "p", "i", "n", "i", "o", "n">>)]),
       Reply("bare", "dict", [is_checkworthy |-> JBool(FALSE), reason |-> JNull]),
       Reply("bare", "garbage", NoFields),
       Reply("fence", "list", NoFields),
       Reply("prose_around", "dict", [main_claim |-> JObject(1)]) >>

QueryReplies ==
    << LlmRaises,
       Reply("bare", "dict",
             [queries |-> JList(<<[query |-> JStr(<<"5", "G", " ", "c", "o", "r", "o", "n", "a", "v", "i", "r", "u", "s">>), purpose |-> JStr(<<"d", "i", "r", "e", "c", "t">>)],
                                  [query |-> JStr(<<"5", "G", " ", "h", "e", "a", "l", "t", "h", " ", "W", "H", "O">>), purpose |-> JStr(<<"o", "f", "f", "i", "c", "i", "a", "l">>)]>>)]),
       Reply("bare", "dict", [queries |-> JList(<<[query |-> JNull]>>)]),
       Reply("bare", "dict", [queries |-> JList(<<[purpose |-> JStr(<<"d", "i", "r", "e", "c", "t">>)]>>)]),
       Reply("fence_JSON", "dict", [queries |-> JNull]),
       Reply("bare", "scalar", NoFields),
       Reply("prose_around", "garbage", NoFields) >>

SynthesisReplies ==
    << LlmRaises,
       Reply("bare", "garbage", NoFields),
       Reply("fence_json", "dict",
             [verdict |-> JStr(<<"F", "A", "L", "S", "E">>), confidence |-> JNum(8500), severity |-> JStr(<<"h", "i", "g", "h">>),
              reasoning |-> JStr(<<"D", "e", "b", "u", "n", "k", "e", "d">>),
              key_findings |-> JList(<<[source |-> JStr(<<"S", "n", "o", "p", "e", "s">>), finding |-> JStr(<<"N", "o", " ", "l", "i", "n", "k">>),
                                        stance |-> JStr(<<"r", "e", "f", "u", "t", "e", "s">>)],
                                       [source |-> JStr(<<"W", "H", "O">>), finding |-> JStr(<<"N", "o", " ", "l", "i", "n", "k">>),
                                        stance |-> JStr(<<"r", "e", "f", "u", "t", "e", "s">>)]>>)]),
       Reply("bare", "dict",
             [verdict |-> JStr(<<"m", "o", "s", "t", "l", "y", "_", "f", "a", "l", "s", "e">>), confidence |-> JNum(7000),
              key_findings |-> JList(<<[source |-> JStr(<<"B", "B", "C">>), stance |-> JStr(<<"s", "u", "p", "p", "o", "r", "t", "s">>)],
                                       [source |-> JStr(<<"S", "n", "o", "p", "e", "s">>), stance |-> JStr(<<"r", "e", "f", "u", "t", "e", "s">>)],
                                       [finding |-> JStr(<<"U", "n", "c", "l", "e", "a", "r">>)]>>)]),
       Reply("bare", "dict", [verdict |-> JStr(<<"t", "r", "u", "e">>), confidence |-> JNum(9500)]),
       Reply("bare", "dict", [verdict |-> JStr(<<"b", "o", "g", "u", "s">>), confidence |-> JNum(15000),
                              severity |-> JStr(<<"e", "x", "t", "r", "e", "m", "e">>)]),
       Reply("bare", "dict", [verdict |-> JNull]),
       Reply("bare", "dict", [verdict |-> JStr(<<"f", "a", "l", "s", "e">>), confidence |-> JStr(<<"h", "i", "g", "h">>)]),
       Reply("bare", "dict",
             [verdict |-> JStr(<<"f", "a", "l", "s", "e">>),
              key_findings |-> JList(<<[source |-> JStr(<<"S", "n", "o", "p", "e", "s">>),
                                        stance |-> JStr(<<"d", "e", "b", "u", "n", "k", "s">>)]>>)]),
       Reply("bare", "list", NoFields) >>

EnglishReplies ==
    << LlmRaises,
       Reply("bare", "dict",
             [explanation |-> JStr(<<"T", "h", "i", "s", " ", "c", "l", "a", "i", "m", " ", "i", "s", " ", "f", "a", "l", "s", "e", ".">>),
              correction |-> JStr(<<"5", "G", " ", "d", "o", "e", "s", " ", "n", "o", "t", " ", "s", "p", "r", "e", "a", "d", " ", "v", "i", "r", "u", "s", "e", "s", ".">>)]),
       Reply("bare", "dict", [explanation |-> JNull]),
       Reply("fence_json", "dict", [correction |-> JList(<<>>)]),
       Reply("bare", "list", NoFields),
       Reply("bare", "garbage", NoFields) >>

HindiReplies ==
    << LlmRaises,
       Reply("bare", "dict", [explanation_hindi |-> JStr(<<"y", "a", "h", " ", "d", "a", "v", "a", " ", "g", "a", "l", "a", "t", " ", "h", "a", "i">>)]),
       Reply("bare", "dict", [explanation_hindi |-> JObject(2)]),
       Reply("bare", "scalar", NoFields) >>

\* what the adapters do in one run, by adapter name
SearchOutcomes ==
    LET all(o, agg) == [tavily |-> o[1], tavily_secondary |-> o[2], factcheck |-> o[3],
                        factcheck_aggregator |-> agg, news |-> o[4], wikipedia |-> o[5]]
        ok == <<Returned(TavilyResults), Returned(TavilySecondaryResults),
                Returned(GoogleFactCheckResults), Returned(NewsResults),
                Returned(WikipediaResults)>>
        none == [i \in 1..5 |-> Returned(<<>>)]
        fail == [i \in 1..5 |-> Raised]
        scrapers(o(_)) == Returned(AggregatedSearch([i \in 1..Len(AggregatorTools) |-> o(i)]))
        everything == scrapers(LAMBDA i : Returned(ScraperResults(AggregatorTools[i])))
        nothing == scrapers(LAMBDA i : Raised)
    IN { all(fail, nothing),
         all(none, Returned(<<>>)),
         all([i \in 1..5 |-> IF i % 2 = 0 THEN Raised ELSE Returned(<<>>)], nothing),
         all(ok, everything),
         all([ok EXCEPT ![1] = Raised], everything),
         all([fail EXCEPT ![5] = ok[5]], nothing),
         all(fail, everything) }

PipelineAvail ==
    { [tavily |-> TRUE, factcheck |-> TRUE, news |-> TRUE],
      [tavily |-> TRUE, factcheck |-> FALSE, news |-> FALSE],
      [tavily |-> FALSE, factcheck |-> FALSE, news |-> FALSE] }

InitPipeline ==
    /\ CacheOff
    /\ ThreadsOff
    /\ CallsOff
    /\ ppc = "start"
    /\ \E raw_input \in RawInputs : state = InitialState(raw_input, "en")
    /\ avail \in PipelineAvail
    /\ tasks = <<>>
    /\ outcome = <<>>
    /\ llm_calls = NoLlmCalls
    /\ result = NoResult

\* the call of a stage is counted, and remembered when it raised
Called(calls, stage, llm) ==
    [calls EXCEPT ![stage] = @ + 1,
                  !.raised = IF llm.raised THEN @ \cup {stage} ELSE @]

\* 1) extract_claim, and the early return when it gave an error or no claim
ExtractClaim(llm) ==
    /\ ppc = "start"
    /\ state' = Update(state, extract_claim(state, llm))
    /\ llm_calls' = IF ExtractCallsLlm(state) THEN Called(llm_calls, "extract", llm)
                    ELSE llm_calls
    /\ IF state'.error # <<>> \/ state'.claim = <<>>
       THEN ppc' = "done" /\ result' = EarlyResult(state')
       ELSE ppc' = "extracted" /\ result' = result
    /\ UNCHANGED <<avail, tasks, outcome, cacheVars, threadVars, callVars>>

\* 2) generate_search_queries
GenerateSearchQueries(llm) ==
    /\ ppc = "extracted"
    /\ ppc' = "planned"
    /\ state' = Update(state, generate_search_queries(state, llm))
    /\ llm_calls' = IF QueriesCallLlm(state) THEN Called(llm_calls, "queries", llm)
                    ELSE llm_calls
    /\ UNCHANGED <<avail, tasks, outcome, result, cacheVars, threadVars, callVars>>

\* 3) search_sources: the tasks, what each produced, and the gathered return
SearchSources(produced) ==
    /\ ppc = "planned"
    /\ ppc' = "searched"
    /\ tasks' = BuildTasks(state, avail)
    /\ outcome' = [i \in 1..Len(tasks') |-> produced[tasks'[i]]]
    /\ state' = Update(state, search_sources(state, outcome'))
    /\ UNCHANGED <<avail, llm_calls, result, cacheVars, threadVars, callVars>>

\* 4) synthesize_evidence
SynthesizeEvidence(llm) ==
    /\ ppc = "searched"
    /\ llm_calls' = IF SynthesisCallsLlm(state) THEN Called(llm_calls, "synthesis", llm)
                    ELSE llm_calls
    /\ LET finish(res) ==
               IF "raised" \in DOMAIN res
               THEN ppc' = "done" /\ result' = [status |-> "raised"] /\ state' = state
               ELSE ppc' = "synthesized" /\ result' = result /\ state' = Update(state, res)
       IN finish(synthesize_evidence(state, llm))
    /\ UNCHANGED <<avail, tasks, outcome, cacheVars, threadVars, callVars>>

\* 5) generate_explanation: two reasoning calls, joined by gather
GenerateExplanation(llm_english, llm_hindi) ==
    /\ ppc = "synthesized"
    /\ ppc' = "explained"
    /\ state' = Update(state, generate_explanation(state, llm_english, llm_hindi))
    /\ llm_calls' = [llm_calls EXCEPT
                        !.explanation = @ + 2,
                        !.raised = @ \cup (IF llm_english.raised THEN {"english"} ELSE {})
                                     \cup (IF llm_hindi.raised THEN {"hindi"} ELSE {})]
    /\ UNCHANGED <<avail, tasks, outcome, result, cacheVars, threadVars, callVars>>

\* the FactCheckResult is built and returned
BuildResult ==
    /\ ppc = "explained"
    /\ ppc' = "done"
    /\ result' = FinalResult(state)
    /\ UNCHANGED <<state, avail, tasks, outcome, llm_calls, cacheVars, threadVars, callVars>>

NextPipeline ==
    \/ \E i \in 1..Len(ExtractReplies) : ExtractClaim(ExtractReplies[i])
    \/ \E i \in 1..Len(QueryReplies) : GenerateSearchQueries(QueryReplies[i])
    \/ \E produced \in SearchOutcomes : SearchSources(produced)
    \/ \E i \in 1..Len(SynthesisReplies) : SynthesizeEvidence(SynthesisReplies[i])
    \/ \E i \in 1..Len(EnglishReplies), j \in 1..Len(HindiReplies) :
          GenerateExplanation(EnglishReplies[i], HindiReplies[j])
    \/ BuildResult

SpecPipeline == InitPipeline /\ [][NextPipeline]_vars

(***************************************************************************)
(* Claims about the search stage, checked under SpecSearch.                *)
(***************************************************************************)
RECURSIVE NonFailingResults(_, _)
\* the results of the tasks that returned, from task i on, in task order
NonFailingResults(outcomes, i) ==
    IF i > Len(outcomes) THEN <<>>
    ELSE (IF outcomes[i].status = "returned" THEN outcomes[i].value ELSE <<>>)
         \o NonFailingResults(outcomes, i + 1)

\* C2: search_sources resumes only after every adapter task has ended, and
\* what it collects before de-duplication is exactly the results of the
\* adapters that did not fail: a failing adapter adds nothing and takes
\* nothing away from the others.
C2_GatherKeepsNonFailing ==
    ppc = "searched" =>
        /\ \A i \in 1..Len(tasks) : outcome[i].status \in {"raised", "returned"}
        /\ state._raw_results_count = Len(NonFailingResults(outcome, 1))
        /\ state.search_results =
              _rank_by_reliability(_deduplicate_results(NonFailingResults(outcome, 1), 3))

C2_Witness ==
    /\ ppc = "searched"
    /\ \E i, j \in 1..Len(tasks) :
          /\ outcome[i].status = "raised"
          /\ outcome[j].status = "returned" /\ outcome[j].value # <<>>
    /\ state._raw_results_count > 0
    /\ state.search_results # <<>>

C1_Raised ==
    /\ ppc = "done"
    /\ result.status = "raised"
    /\ state.verdict # "None"
    /\ state.explanation.t = "null"

\* C9: when the reasoning call of synthesize_evidence raises and the ranked
\* list is not empty, the stage returns verdict unverifiable, confidence 0.3,
\* severity medium and an evidence list built from at most the first five
\* ranked results, every stance neutral.
C9_SynthesisFailureFallback ==
    "synthesis" \in llm_calls.raised =>
        /\ state.search_results # <<>>
        /\ state.verdict = "unverifiable"
        /\ state.confidence = 3000
        /\ state.severity = "medium"
        /\ Len(state.evidence) <= 5
        /\ Len(state.evidence) <= Len(state.search_results)
        /\ \A i \in 1..Len(state.evidence) :
              /\ state.evidence[i].stance = "neutral"
              /\ state.evidence[i].source_url = state.search_results[i].url

C9_Witness ==
    /\ "synthesis" \in llm_calls.raised
    /\ ppc = "synthesized"
    /\ Len(state.search_results) > 5
    /\ Len(state.evidence) = 5

\* every adapter task of the run raised or returned an empty list
AllAdaptersEmpty ==
    /\ tasks # <<>>
    /\ \A i \in 1..Len(tasks) : outcome[i].status = "raised" \/ outcome[i].value = <<>>

\* C10: when every adapter returned nothing or failed, synthesis gives
\* verdict unverifiable, confidence 0.3, severity medium and no evidence,
\* and does not call the reasoning capability.
C10_NoResultsNoSynthesisCall ==
    (ppc \in {"synthesized", "explained", "done"} /\ AllAdaptersEmpty) =>
        /\ state.verdict = "unverifiable"
        /\ state.confidence = 3000
        /\ state.severity = "medium"
        /\ state.evidence = <<>>
        /\ llm_calls.synthesis = 0
        /\ "synthesis" \notin llm_calls.raised

C10_Witness ==
    /\ ppc = "synthesized"
    /\ AllAdaptersEmpty
    /\ \E i, j \in 1..Len(tasks) :
          outcome[i].status = "raised" /\ outcome[j].status = "returned"
    /\ state.confidence = 3000
    /\ llm_calls.synthesis = 0
(***************************************************************************)
(* SpecCalls: one call of one function of the pipeline, with its arguments *)
(* chosen from the sets below; call records the function, the arguments    *)
(* and what it returned.                                                   *)
(***************************************************************************)
ReplyForms == <<"bare", "fence_json", "fence", "fence_JSON", "prose_around">>

ReplyKinds == <<"dict", "list", "scalar", "garbage">>

\* the texts the parser is called with: every form around every kind of payload
ParseReplies ==
    <<Reply("empty", "garbage", NoFields)>>
    \o [i \in 1..(Len(ReplyForms) * Len(ReplyKinds)) |->
          LET kind == ReplyKinds[((i - 1) % Len(ReplyKinds)) + 1]
          IN Reply(ReplyForms[((i - 1) \div Len(ReplyKinds)) + 1], kind,
                   IF kind = "dict" THEN [verdict |-> JStr(<<"f", "a", "l", "s", "e">>)] ELSE NoFields)]

InitCalls ==
    /\ CacheOff
    /\ ThreadsOff
    /\ ppc = "off" /\ state = <<>> /\ avail = <<>> /\ tasks = <<>>
    /\ outcome = <<>> /\ llm_calls = <<>> /\ result = <<>>
    /\ events = <<>>
    /\ call = NoCall
    /\ AuxOff

\* _parse_json_response(text)
ParseJsonResponse(reply) ==
    /\ call = NoCall
    /\ call' = [fn |-> "_parse_json_response", text |-> reply,
                ret |-> _parse_json_response(reply)]
    /\ UNCHANGED <<auxVars, cacheVars, threadVars, ppc, state, avail, tasks, outcome, llm_calls,
                   result, events>>

\* the values of VerdictType
Verdicts == {"false", "mostly_false", "mixed", "mostly_true", "true", "unverifiable"}

\* calibrated confidences around the upgrade threshold, in units of 1e-4
VerdictConfidences == {1000, 3000, 5000, 7999, 8000, 8001, 8500, 9800}

\* calibrate_verdict(verdict, calibrated_confidence)
CalibrateVerdict(verdict, confidence) ==
    /\ call = NoCall
    /\ call' = [fn |-> "calibrate_verdict", verdict |-> verdict, confidence |-> confidence,
                ret |-> calibrate_verdict(verdict, confidence)]
    /\ UNCHANGED <<auxVars, cacheVars, threadVars, ppc, state, avail, tasks, outcome, llm_calls,
                   result, events>>

MaxEvidence == 4    \* the longest evidence list calibrate_confidence is called with

\* the kinds of Evidence the lists are made of
EvidencePool ==
    << Evidence(<<"S", "n", "o", "p", "e", "s">>, "fact_check", <<"h", "t", "t", "p", "s", ":", "/", "/", "w", "w", "w", ".", "s", "n", "o", "p", "e", "s", ".", "c", "o", "m", "/", "f", "a", "c", "t", "-", "c", "h", "e", "c", "k", "/", "5", "g">>, <<>>,
                "refutes", 9000),
       Evidence(<<"W", "H", "O">>, "official", <<"h", "t", "t", "p", "s", ":", "/", "/", "w", "w", "w", ".", "w", "h", "o", ".", "i", "n", "t", "/", "5", "g">>, <<>>, "refutes", 9200),
       Evidence(<<"B", "B", "C">>, "news", <<"h", "t", "t", "p", "s", ":", "/", "/", "w", "w", "w", ".", "b", "b", "c", ".", "c", "o", "m", "/", "n", "e", "w", "s", "/", "5", "g">>, <<>>, "supports", 8500),
       Evidence(<<"B", "l", "o", "g">>, "web", <<"h", "t", "t", "p", "s", ":", "/", "/", "e", "x", "a", "m", "p", "l", "e", ".", "c", "o", "m", "/", "5", "g">>, <<>>, "neutral", 5000),
       Evidence(<<"D", "a", "i", "l", "y">>, "news", <<"h", "t", "t", "p", "s", ":", "/", "/", "d", "a", "i", "l", "y", ".", "e", "x", "a", "m", "p", "l", "e", ".", "c", "o", "m", "/", "5", "g">>, <<>>, "refutes", 7000) >>

\* the evidence lists: calibrate only counts its evidence, so every multiset of
\* at most MaxEvidence kinds is listed in one order
EvidenceLists ==
    { [i \in 1..Len(picks) |-> EvidencePool[picks[i]]] :
        picks \in { p \in UNION {[1..n -> 1..Len(EvidencePool)] : n \in 0..MaxEvidence} :
                      \A i \in 1..(Len(p) - 1) : p[i] <= p[i + 1] } }

\* raw confidences of the reasoning step in units of 1e-4, some outside [0, 1]
BaseConfidences == {-2000, 0, 500, 4000, 5000, 7000, 9000, 10000, 15000}

\* claim texts: the coronavirus claim, one with a listed keyword, and none
CalibrateTexts == <<<<"5", "G", " ", "t", "o", "w", "e", "r", "s", " ", "s", "p", "r", "e", "a", "d", " ", "t", "h", "e", " ", "c", "o", "r", "o", "n", "a", "v", "i", "r", "u", "s">>, <<"5", "G", " ", "c", "a", "u", "s", "e", "s", " ", "C", "O", "V", "I", "D", "-", "1", "9">>, <<>>>>

\* the calibration step of synthesize_evidence: calibrate_confidence, then
\* calibrate_verdict on what it returned
CalibrateConfidence(base_confidence, verdict, evidence, claim_text) ==
    /\ call = NoCall
    /\ LET returned(calibrated_confidence) ==
               [fn |-> "calibrate_confidence", base_confidence |-> base_confidence,
                verdict |-> verdict, evidence |-> evidence, claim_text |-> claim_text,
                ret |-> calibrated_confidence,
                calibrated_verdict |-> calibrate_verdict(verdict, calibrated_confidence)]
       IN call' = returned(calibrate_confidence(base_confidence, verdict, evidence,
                                                claim_text))
    /\ UNCHANGED <<auxVars, cacheVars, threadVars, ppc, state, avail, tasks, outcome, llm_calls,
                   result, events>>

MaxResults == 4     \* the longest result list de-duplication and ranking are called with

\* the results the lists are made of: five pages of one domain, one of them a
\* repeat of another, three without a scheme in the URL, a syndicated copy on a
\* second domain, and a page of a third domain
ResultPool ==
    GoogleFactCheckResults \o ScraperResults("snopes") \o <<RepeatedResults[1]>>
    \o TavilySecondaryResults \o SubSeq(RepeatedResults, 2, 4) \o <<TavilyResults[2]>>

\* every list of at most MaxResults different results of the pool, in every order
ResultLists ==
    { [i \in 1..Len(picks) |-> ResultPool[picks[i]]] :
        picks \in { p \in UNION {[1..n -> 1..Len(ResultPool)] : n \in 0..MaxResults} :
                      \A i, j \in 1..Len(p) : i # j => p[i] # p[j] } }

\* the values of max_per_domain: the default and the one search_sources passes
DomainCaps == {2, 3}

\* _deduplicate_results(results, max_per_domain)
DeduplicateResults(results, max_per_domain) ==
    /\ call' = [fn |-> "_deduplicate_results", results |-> results,
                max_per_domain |-> max_per_domain,
                ret |-> _deduplicate_results(results, max_per_domain)]
    /\ UNCHANGED <<auxVars, cacheVars, threadVars, ppc, state, avail, tasks, outcome, llm_calls,
                   result, events>>

\* _rank_by_reliability(results)
RankByReliability(results) ==
    /\ call' = [fn |-> "_rank_by_reliability", results |-> results,
                ret |-> _rank_by_reliability(results)]
    /\ UNCHANGED <<auxVars, cacheVars, threadVars, ppc, state, avail, tasks, outcome, llm_calls,
                   result, events>>

\* calculate_source_diversity(search_results)
CalculateSourceDiversity(search_results) ==
    /\ call' = [fn |-> "calculate_source_diversity", search_results |-> search_results,
                ret |-> calculate_source_diversity(search_results)]
    /\ UNCHANGED <<auxVars, cacheVars, threadVars, ppc, state, avail, tasks, outcome, llm_calls,
                   result, events>>

MaxTextLen == 3

\* the texts _normalize_claim is called with: every string of up to MaxTextLen
\* characters over a letter in both cases, the blank and the full stop
NormalizeTexts == UNION { [1..n -> {"A", "a", " ", "."}] : n \in 0..MaxTextLen }

\* ClaimStore._normalize_claim(claim_text)
NormalizeClaim(claim_text) ==
    /\ call' = [fn |-> "_normalize_claim", claim_text |-> claim_text,
                ret |-> _normalize_claim(claim_text)]
    /\ UNCHANGED <<auxVars, cacheVars, threadVars, ppc, state, avail, tasks, outcome, llm_calls,
                   result, events>>
\* one call is made, of any of the functions
NextCalls ==
    \/ /\ call = NoCall
       /\ \E i \in 1..Len(ParseReplies) : ParseJsonResponse(ParseReplies[i])
    \/ /\ call = NoCall
       /\ \E verdict \in Verdicts, confidence \in VerdictConfidences :
             CalibrateVerdict(verdict, confidence)
    \/ /\ call = NoCall
       /\ \E base_confidence \in BaseConfidences, verdict \in Verdicts,
             evidence \in EvidenceLists, i \in 1..Len(CalibrateTexts) :
             CalibrateConfidence(base_confidence, verdict, evidence, CalibrateTexts[i])
    \/ /\ call = NoCall
       /\ \E results \in ResultLists, max_per_domain \in DomainCaps :
             DeduplicateResults(results, max_per_domain)
    \/ /\ call = NoCall
       /\ \E results \in ResultLists : RankByReliability(results)
    \/ /\ call = NoCall
       /\ \E search_results \in ResultLists : CalculateSourceDiversity(search_results)
    \/ /\ call = NoCall
       /\ \E claim_text \in NormalizeTexts : NormalizeClaim(claim_text)

SpecCalls == InitCalls /\ [][NextCalls]_vars

(***************************************************************************)
(* SpecStreaming: one call of search_sources_streaming.  The sources are   *)
(* searched one after the other; events lists what the callback was handed.*)
(***************************************************************************)
\* SOURCE_DISPLAY_NAMES.get(source_key, source_key)
SOURCE_DISPLAY_NAMES(source_key) ==
    CASE source_key = "tavily" -> "Web Search"
      [] source_key = "tavily_secondary" -> "Extended Web Search"
      [] source_key = "factcheck" -> "Google Fact Check"
      [] source_key = "news" -> "NewsAPI"
      [] source_key = "wikipedia" -> "Wikipedia"
      [] source_key = "factcheck_aggregator" -> "Fact-Checkers"
      [] OTHER -> source_key

\* the arguments of one emit_event call
SourceEvent(source_name, status, count) ==
    [source |-> source_name, status |-> status, count |-> count]

\* the source whose search_fn is being awaited
Searching == [status |-> "searching", value |-> <<>>]

\* a variant that goes on to the next source once the earlier ones were started
PreviousEnded_started(outcomes, i) ==
    \A j \in 1..(i - 1) : outcomes[j].status # "pending"

\* the for loop reaches source i after the iterations before it have ended
PreviousEnded(outcomes, i) ==
    \A j \in 1..(i - 1) : outcomes[j].status \in {"raised", "returned"}

\* the event emitted after search_fn: "error" from the except branch, else "found"
TerminalEvent(source_key, o) ==
    IF o.status = "raised" THEN SourceEvent(SOURCE_DISPLAY_NAMES(source_key), "error", 0)
    ELSE SourceEvent(SOURCE_DISPLAY_NAMES(source_key), "found", Len(o.value))

\* emit_source_event(source_name, status, count), the callback check_claim_stream
\* passes: the running total grows by the count of a "found" event and the
\* event goes into the queue together with the total
emit_source_event(e) ==
    LET put(total) ==
            /\ total_sources_found' = total
            /\ event_queue' = Append(event_queue,
                                     [source |-> e.source, status |-> e.status,
                                      count |-> e.count, total |-> total])
    IN /\ events' = Append(events, e)
       /\ put(IF e.status = "found" THEN total_sources_found + e.count
              ELSE total_sources_found)

InitStreaming ==
    /\ CacheOff
    /\ ThreadsOff
    /\ ppc = "stream"
    /\ \E queries \in SearchQueries, claim \in {<<>>, <<SearchClaim>>} :
         state = Update(InitialState(SearchClaim.text, "en"),
                        [claim |-> claim, _search_queries |-> queries])
    /\ avail \in AvailConfigs
    /\ tasks = <<>>
    /\ outcome = <<>>
    /\ llm_calls = NoLlmCalls
    /\ result = NoResult
    /\ events = <<>>
    /\ call = NoCall
    /\ AuxOff

\* without a claim the call returns at once; else the list of sources is built
StreamStart ==
    /\ ppc = "stream"
    /\ IF state.claim = <<>>
       THEN /\ ppc' = "streamed"
            /\ state' = Update(state, [search_results |-> <<>>, sources_checked |-> 0,
                                       source_diversity |-> 0])
            /\ UNCHANGED <<tasks, outcome>>
       ELSE /\ ppc' = "sources"
            /\ tasks' = BuildTasks(state, avail)
            /\ outcome' = [i \in 1..Len(tasks') |-> Pending]
            /\ state' = state
    /\ UNCHANGED <<auxVars, avail, llm_calls, result, events, call, cacheVars, threadVars>>

\* one iteration begins: "searching" is emitted and search_fn is awaited
StreamSearching(i) ==
    /\ ppc = "sources"
    /\ i \in 1..Len(tasks)
    /\ outcome[i].status = "pending"
    /\ PreviousEnded(outcome, i)
    /\ emit_source_event(SourceEvent(SOURCE_DISPLAY_NAMES(tasks[i]), "searching", 0))
    /\ outcome' = [outcome EXCEPT ![i] = Searching]
    /\ UNCHANGED <<scorerVars, completed, batchVars, endpointVars, ppc, state, avail, tasks, llm_calls, result, call, cacheVars, threadVars>>

\* search_fn ends by raising or returning, and the iteration emits its last event
StreamSearched(i) ==
    /\ ppc = "sources"
    /\ i \in 1..Len(tasks)
    /\ outcome[i].status = "searching"
    /\ \E o \in AdapterOutcomes(tasks[i]) :
          /\ outcome' = [outcome EXCEPT ![i] = o]
          /\ emit_source_event(TerminalEvent(tasks[i], o))
    /\ UNCHANGED <<scorerVars, completed, batchVars, endpointVars, ppc, state, avail, tasks, llm_calls, result, call, cacheVars, threadVars>>

\* after the loop: de-duplication, ranking, diversity and the return
StreamReturn ==
    /\ ppc = "sources"
    /\ \A i \in 1..Len(tasks) : outcome[i].status \in {"raised", "returned"}
    /\ ppc' = "streamed"
    /\ state' = Update(state, SearchReturn(Collect(outcome)))
    /\ UNCHANGED <<auxVars, avail, tasks, outcome, llm_calls, result, events, call, cacheVars,
                   threadVars>>

NextStreaming ==
    \/ StreamStart
    \/ \E i \in 1..6 : StreamSearching(i)
    \/ \E i \in 1..6 : StreamSearched(i)
    \/ StreamReturn

SpecStreaming == InitStreaming /\ [][NextStreaming]_vars


(***************************************************************************)
(* SpecScorer: calls of services/reliability.get_reliability_score, one    *)
(* after the other, on the module's singleton scorer.                      *)
(***************************************************************************)
MaxCalls == 3

\* (url, source_name, tool_source) of the calls
ScoreArgs ==
    { <<<<"h", "t", "t", "p", "s", ":", "/", "/", "w", "w", "w", ".", "w", "h", "o", ".", "i", "n", "t", "/", "n", "e", "w", "s">>, <<"W", "H", "O", " ", "s", "t", "a", "t", "e", "m", "e", "n", "t">>, <<"t", "a", "v", "i", "l", "y">>>>,
      <<<<"H", "T", "T", "P", ":", "/", "/", "W", "H", "O", ".", "I", "N", "T">>, <<"R", "e", "u", "t", "e", "r", "s", " ", "r", "e", "p", "o", "r", "t">>, <<"n", "e", "w", "s", "a", "p", "i">>>>,
      <<<<"h", "t", "t", "p", "s", ":", "/", "/", "e", "x", "a", "m", "p", "l", "e", ".", "c", "o", "m", "/", "a">>, <<"R", "e", "u", "t", "e", "r", "s", " ", "r", "e", "p", "o", "r", "t">>, <<"n", "e", "w", "s", "a", "p", "i">>>>,
      <<<<"h", "t", "t", "p", "s", ":", "/", "/", "e", "x", "a", "m", "p", "l", "e", ".", "c", "o", "m", "/", "a">>, <<"F", "o", "r", "u", "m", " ", "p", "o", "s", "t">>, <<"t", "a", "v", "i", "l", "y">>>>,
      <<<<"h", "t", "t", "p", "s", ":", "/", "/", "c", "s", ".", "e", "x", "a", "m", "p", "l", "e", ".", "e", "d", "u", "/", "x">>, <<"L", "e", "c", "t", "u", "r", "e">>, <<"w", "i", "k", "i", "p", "e", "d", "i", "a">>>>,
      <<<<>>, <<>>, <<"w", "i", "k", "i", "p", "e", "d", "i", "a">>>> }

\* a variant in which the scorer answers an unknown domain with the result of
\* the call before
ScorerScore_remembering(earlier, url, source_name, tool_source) ==
    IF earlier # <<>> /\ _check_domain_patterns(reliability_extract_domain(url)).score = 0
    THEN earlier[Len(earlier)].ret
    ELSE score(url, source_name, tool_source)

\* _scorer.score(url, source_name, tool_source) after the calls `earlier`: the
\* instance has no attribute and score reads its arguments and the module's
\* tables only
ScorerScore(earlier, url, source_name, tool_source) ==
    score(url, source_name, tool_source)

InitScorer ==
    /\ CacheOff
    /\ ThreadsOff
    /\ ppc = "off" /\ state = <<>> /\ avail = <<>> /\ tasks = <<>>
    /\ outcome = <<>> /\ llm_calls = <<>> /\ result = <<>>
    /\ events = <<>>
    /\ call = NoCall
    /\ _scorer = "None"
    /\ scored = <<>>
    /\ QueueOff
    /\ GatherOff
    /\ EndpointOff
    /\ BatchOff

\* get_reliability_score(url, source_name, tool_source)
GetReliabilityScore(url, source_name, tool_source) ==
    /\ Len(scored) < MaxCalls
    /\ _scorer' = IF _scorer = "None" THEN "SourceReliabilityScorer" ELSE _scorer
    /\ scored' = Append(scored, [url |-> url, source_name |-> source_name,
                                 tool_source |-> tool_source,
                                 ret |-> ScorerScore(scored, url, source_name, tool_source)])
    /\ UNCHANGED <<cacheVars, threadVars, ppc, state, avail, tasks, outcome, llm_calls,
                   result, events, call, completed, queueVars, endpointVars, batchVars>>

NextScorer ==
    \E args \in ScoreArgs : GetReliabilityScore(args[1], args[2], args[3])

SpecScorer == InitScorer /\ [][NextScorer]_vars

(***************************************************************************)
(* SpecEndpoint: the search step of check_claim_stream (api/main.py).      *)
(* search_sources_streaming runs as a task of the event loop and           *)
(* generate_events polls the queue beside it; the two interleave at their  *)
(* awaits.                                                                 *)
(***************************************************************************)
\* send_event("source", {...}) of a queued event
SourceMessage(source_event, progress) ==
    [type |-> "source", source |-> source_event.source, status |-> source_event.status,
     count |-> source_event.count, total |-> source_event.total, progress |-> progress]

\* send_event("step", {"step": "searching", "progress": 60, "message": f"Found {n} sources"})
FoundMessage(results) ==
    [type |-> "step", step |-> "searching", progress |-> 60, found |-> Len(results)]

\* search_task.done()
TaskDone == ppc = "streamed"

\* a variant of the drain loop that stops at once
Drained_at_once(queue) == TRUE

\* event_queue.empty(), the end of the drain loop
Drained(queue) == queue = <<>>

\* is_available of the key-dependent adapters: no key at all, or a web-search key
EndpointAvail ==
    { [tavily |-> FALSE, factcheck |-> FALSE, news |-> FALSE],
      [tavily |-> TRUE, factcheck |-> FALSE, news |-> FALSE] }

InitEndpoint ==
    /\ CacheOff
    /\ ThreadsOff
    /\ ppc = "stream"
    /\ \E queries \in SearchQueries :
         state = Update(InitialState(SearchClaim.text, "en"),
                        [claim |-> <<SearchClaim>>, _search_queries |-> queries])
    /\ avail \in EndpointAvail
    /\ tasks = <<>>
    /\ outcome = <<>>
    /\ llm_calls = NoLlmCalls
    /\ result = NoResult
    /\ events = <<>>
    /\ call = NoCall
    /\ ScorerOff
    /\ QueueOff
    /\ GatherOff
    /\ BatchOff
    /\ gpc = "polling"
    /\ delivered = <<>>

\* wait_for(event_queue.get(), timeout=0.1) returns an event while the task
\* is not done, and the event is yielded with the progress of its total
PollGet ==
    /\ gpc = "polling"
    /\ ~TaskDone
    /\ event_queue # <<>>
    /\ event_queue' = Tail(event_queue)
    /\ delivered' = Append(delivered,
                           SourceMessage(Head(event_queue),
                                         25 + Min(35, Head(event_queue).total * 2)))
    /\ UNCHANGED <<gpc, total_sources_found, scorerVars, completed, batchVars, ppc, state, avail, tasks, outcome,
                   llm_calls, result, events, call, cacheVars, threadVars>>

\* wait_for times out and the loop goes round
PollTimeout ==
    /\ gpc = "polling"
    /\ ~TaskDone
    /\ UNCHANGED vars

\* the loop finds the task done; await search_task gives its state
PollEnd ==
    /\ gpc = "polling"
    /\ TaskDone
    /\ gpc' = "draining"
    /\ UNCHANGED <<delivered, queueVars, scorerVars, completed, batchVars, ppc, state, avail, tasks, outcome,
                   llm_calls, result, events, call, cacheVars, threadVars>>

\* one round of the drain loop
Drain ==
    /\ gpc = "draining"
    /\ ~Drained(event_queue)
    /\ event_queue # <<>>
    /\ event_queue' = Tail(event_queue)
    /\ delivered' = Append(delivered, SourceMessage(Head(event_queue), 60))
    /\ UNCHANGED <<gpc, total_sources_found, scorerVars, completed, batchVars, ppc, state, avail, tasks, outcome,
                   llm_calls, result, events, call, cacheVars, threadVars>>

\* the drain loop has ended and the step event with the number of sources is yielded
Report ==
    /\ gpc = "draining"
    /\ Drained(event_queue)
    /\ gpc' = "reported"
    /\ delivered' = Append(delivered, FoundMessage(state.search_results))
    /\ UNCHANGED <<queueVars, scorerVars, completed, batchVars, ppc, state, avail, tasks, outcome,
                   llm_calls, result, events, call, cacheVars, threadVars>>

NextEndpoint ==
    \/ StreamStart
    \/ \E i \in 1..6 : StreamSearching(i)
    \/ \E i \in 1..6 : StreamSearched(i)
    \/ StreamReturn
    \/ PollGet
    \/ PollTimeout
    \/ PollEnd
    \/ Drain
    \/ Report

SpecEndpoint == InitEndpoint /\ [][NextEndpoint]_vars

(***************************************************************************)
(* SpecBatch: one call of check_claims_batch (api/main.py) after the cache *)
(* lookups.  asyncio.gather starts a process_claim task for every claim of *)
(* a chunk; the tasks run and end in any order.                            *)
(***************************************************************************)
MaxClaims == 11

batch_size == 5

\* claims_to_process[i:i + batch_size], as positions in claims_to_process
Batch(claims, i) ==
    {c \in 1..Len(claims) : c > i /\ c <= i + batch_size}

\* a variant in which the wait ends with the first task that is done
GatherDone_first(batch, tasks_of) ==
    \E c \in batch : tasks_of[c] \in {"returned", "failed"}

\* await asyncio.gather(*[process_claim(c) for c in batch]) returns: every
\* task has returned, process_claim turning an exception of the pipeline
\* into an error response
GatherDone(batch, tasks_of) ==
    \A c \in batch : tasks_of[c] \in {"returned", "failed"}

InitBatch ==
    /\ CacheOff
    /\ ThreadsOff
    /\ ppc = "off" /\ state = <<>> /\ avail = <<>> /\ tasks = <<>>
    /\ outcome = <<>> /\ llm_calls = <<>> /\ result = <<>>
    /\ events = <<>>
    /\ call = NoCall
    /\ ScorerOff
    /\ QueueOff
    /\ GatherOff
    /\ EndpointOff
    /\ bpc = "loop"
    /\ \E n \in 0..MaxClaims : claims_to_process = [c \in 1..n |-> c]
    /\ batch_index = 0
    /\ process = [c \in 1..Len(claims_to_process) |-> "none"]

\* the loop takes the next chunk and gather makes a task of every claim in it
Gather ==
    /\ bpc = "loop"
    /\ batch_index < Len(claims_to_process)
    /\ bpc' = "gather"
    /\ process' = [c \in 1..Len(claims_to_process) |->
                     IF c \in Batch(claims_to_process, batch_index) THEN "scheduled"
                     ELSE process[c]]
    /\ UNCHANGED <<claims_to_process, batch_index>>
    /\ UNCHANGED <<cacheVars, threadVars, ppc, state, avail, tasks, outcome, llm_calls,
                   result, events, call, scorerVars, completed, queueVars, endpointVars>>

\* a task begins: process_claim awaits run_factcheck_pipeline
ProcessStart(c) ==
    /\ bpc = "gather"
    /\ c \in 1..Len(claims_to_process)
    /\ process[c] = "scheduled"
    /\ process' = [process EXCEPT ![c] = "running"]
    /\ UNCHANGED <<bpc, claims_to_process, batch_index>>
    /\ UNCHANGED <<cacheVars, threadVars, ppc, state, avail, tasks, outcome, llm_calls,
                   result, events, call, scorerVars, completed, queueVars, endpointVars>>

\* the pipeline run of a task ends; an exception gives the error response
ProcessEnd(c, how) ==
    /\ bpc = "gather"
    /\ c \in 1..Len(claims_to_process)
    /\ process[c] = "running"
    /\ process' = [process EXCEPT ![c] = how]
    /\ UNCHANGED <<bpc, claims_to_process, batch_index>>
    /\ UNCHANGED <<cacheVars, threadVars, ppc, state, avail, tasks, outcome, llm_calls,
                   result, events, call, scorerVars, completed, queueVars, endpointVars>>

\* gather returns and the loop goes to the next chunk
NextBatch ==
    /\ bpc = "gather"
    /\ GatherDone(Batch(claims_to_process, batch_index), process)
    /\ bpc' = "loop"
    /\ batch_index' = batch_index + batch_size
    /\ UNCHANGED <<claims_to_process, process>>
    /\ UNCHANGED <<cacheVars, threadVars, ppc, state, avail, tasks, outcome, llm_calls,
                   result, events, call, scorerVars, completed, queueVars, endpointVars>>

\* the loop is over and the response is returned
BatchReturn ==
    /\ bpc = "loop"
    /\ batch_index >= Len(claims_to_process)
    /\ bpc' = "returned"
    /\ UNCHANGED <<claims_to_process, batch_index, process>>
    /\ UNCHANGED <<cacheVars, threadVars, ppc, state, avail, tasks, outcome, llm_calls,
                   result, events, call, scorerVars, completed, queueVars, endpointVars>>

NextBatchStep ==
    \/ Gather
    \/ \E c \in 1..MaxClaims : ProcessStart(c)
    \/ \E c \in 1..MaxClaims, how \in {"returned", "failed"} : ProcessEnd(c, how)
    \/ NextBatch
    \/ BatchReturn

SpecBatch == InitBatch /\ [][NextBatchStep]_vars

(***************************************************************************)
(* Every operation of ClaimStore that takes the lock, run by threads: the  *)
(* calls of SpecThreads together with exists, find_similar, get_stats and  *)
(* the load of the constructor.  Thread 1 constructs the store; the store  *)
(* is handed out when __init__ has returned.                               *)
(***************************************************************************)
Constructor == 1

\* what json.load may find under "claims": nothing, a fresh entry, an expired one
LoadedCaches ==
    { <<>> } \cup
    { <<NewEntry(x, r, at)>> : x \in {<<"A">>}, r \in ThreadResults,
                                at \in {0, 0 - cache_ttl - 1} }

InitLocks ==
    /\ cache = <<>>
    /\ now = 0
    /\ persist_path \in BOOLEAN
    /\ ret = NoRet
    /\ pc = [t \in Threads |-> IF t = Constructor THEN "construct" ELSE "idle"]
    /\ lock = NoThread
    /\ local = [t \in Threads |-> NoLocal]
    /\ PipelineOff

Constructed == pc[Constructor] \notin {"construct", "want_load", "in_load"}

\* __init__ without a file to load: no persist_path, or the path does not exist
ConstructEmpty(t) ==
    /\ pc[t] = "construct"
    /\ pc' = [pc EXCEPT ![t] = "idle"]
    /\ UNCHANGED <<cacheVars, lock, local, pipeVars>>

\* _load_from_disk: the file is read into self._cache and _cleanup_expired is
\* called, with the file open and the lock not held
LoadFromDisk(t, claims) ==
    /\ pc[t] = "construct"
    /\ persist_path
    /\ cache' = claims
    /\ local' = [local EXCEPT ![t] = [NoLocal EXCEPT !.op = "load"]]
    /\ pc' = [pc EXCEPT ![t] = "want_load"]
    /\ UNCHANGED <<now, persist_path, ret, lock, pipeVars>>

\* _load_from_disk when json.load raises: the error is printed, the cache is empty
LoadFailed(t) ==
    /\ pc[t] = "construct"
    /\ persist_path
    /\ cache' = <<>>
    /\ pc' = [pc EXCEPT ![t] = "idle"]
    /\ UNCHANGED <<now, persist_path, ret, lock, local, pipeVars>>

\* the body of _cleanup_expired as called by _load_from_disk
LoadCleanup(t) ==
    /\ pc[t] = "in_load"
    /\ cache' = _cleanup_expired(cache, now)
    /\ lock' = NoThread
    /\ local' = [local EXCEPT ![t] = NoLocal]
    /\ pc' = [pc EXCEPT ![t] = "idle"]
    /\ UNCHANGED <<now, persist_path, ret, pipeVars>>

\* ClaimStore.exists up to its lock
CallExists(t, claim_text) ==
    /\ pc[t] = "idle"
    /\ local' = [local EXCEPT ![t] = [NoLocal EXCEPT !.op = "exists", !.text = claim_text]]
    /\ pc' = [pc EXCEPT ![t] = "want_exists"]
    /\ UNCHANGED <<cacheVars, lock, pipeVars>>

\* the body of exists: an expired entry of the key is deleted
ExistsLocked(t) ==
    /\ pc[t] = "in_exists"
    /\ cache' = get(cache, local[t].text, now).cache
    /\ local' = [local EXCEPT ![t] = NoLocal]
    /\ lock' = NoThread
    /\ pc' = [pc EXCEPT ![t] = "idle"]
    /\ UNCHANGED <<now, persist_path, ret, pipeVars>>

\* ClaimStore.find_similar up to its lock; with no words it returns before it
CallFindSimilar(t, claim_text) ==
    /\ pc[t] = "idle"
    /\ IF WordSet(_normalize_claim(claim_text)) = {}
       THEN UNCHANGED <<pc, local>>
       ELSE /\ local' = [local EXCEPT ![t] = [NoLocal EXCEPT !.op = "find_similar",
                                                               !.text = claim_text]]
            /\ pc' = [pc EXCEPT ![t] = "want_find"]
    /\ UNCHANGED <<cacheVars, lock, pipeVars>>

\* the scan of find_similar; the with block is left by its end or by an
\* exception of the scan, and the lock is released either way
FindSimilarLocked(t) ==
    /\ pc[t] = "in_find"
    /\ local' = [local EXCEPT ![t] = NoLocal]
    /\ lock' = NoThread
    /\ pc' = [pc EXCEPT ![t] = "idle"]
    /\ UNCHANGED <<cacheVars, pipeVars>>

\* ClaimStore.get_stats up to its lock
CallGetStats(t) ==
    /\ pc[t] = "idle"
    /\ local' = [local EXCEPT ![t] = [NoLocal EXCEPT !.op = "get_stats"]]
    /\ pc' = [pc EXCEPT ![t] = "want_stats"]
    /\ UNCHANGED <<cacheVars, lock, pipeVars>>

\* the body of get_stats: it returns from inside the with block
GetStatsLocked(t) ==
    /\ pc[t] = "in_stats"
    /\ local' = [local EXCEPT ![t] = NoLocal]
    /\ lock' = NoThread
    /\ pc' = [pc EXCEPT ![t] = "idle"]
    /\ UNCHANGED <<cacheVars, pipeVars>>

\* the steps of thread t once a call is under way, the wait for the lock aside
Step(t) ==
    \/ Insert(t) \/ CleanupExpired(t) \/ EnforceSizeLimit(t)
    \/ SaveBegin(t) \/ SaveEnd(t) \/ GetLocked(t) \/ ClearLocked(t)
    \/ ExistsLocked(t) \/ FindSimilarLocked(t) \/ GetStatsLocked(t)
    \/ LoadCleanup(t)
    \/ ConstructEmpty(t) \/ LoadFailed(t) \/ \E claims \in LoadedCaches : LoadFromDisk(t, claims)

NextLocks ==
    \/ /\ Constructed
       /\ \/ \E t \in Threads, x \in ThreadTexts, r \in ThreadResults : CallStore(t, x, r)
          \/ \E t \in Threads, x \in ThreadTexts : CallGet(t, x)
          \/ \E t \in Threads : CallClear(t)
          \/ \E t \in Threads, x \in ThreadTexts : CallExists(t, x)
          \/ \E t \in Threads, x \in ThreadTexts : CallFindSimilar(t, x)
          \/ \E t \in Threads : CallGetStats(t)
    \/ \E t \in Threads : Acquire(t)
    \/ \E t \in Threads : Step(t)

SpecLocks == InitLocks /\ [][NextLocks]_vars

\* a thread that can run is run in the end, and a thread that waits for the
\* lock gets it in the end when the lock keeps being released
SpecLocksFair ==
    /\ SpecLocks
    /\ \A t \in Threads : WF_vars(Step(t)) /\ SF_vars(Acquire(t))

(***************************************************************************)
(* SpecGather: one call of search_sources with the order in which its      *)
(* tasks end kept in the state.                                            *)
(***************************************************************************)
\* the Tavily key alone: three tasks, or four when there is a second query
GatherAvail == { a \in AvailConfigs : a.tavily /\ ~a.factcheck /\ ~a.news }

InitGather == InitSearch /\ avail \in GatherAvail

\* one adapter task ends; it is the next in the order of completion
AdapterDoneNext(i) == AdapterEnds(i) /\ completed' = Append(completed, i)

NextGather ==
    \/ SearchStart
    \/ \E i \in 1..6 : AdapterDoneNext(i)
    \/ SearchGather

SpecGather == InitGather /\ [][NextGather]_vars
(***************************************************************************)
(* Claims about single functions, checked under SpecCalls.                 *)
(***************************************************************************)
\* C11: for every reasoning output text (prose, a fenced block, an object
\* embedded in prose, malformed JSON, or valid JSON that is not an object)
\* the tolerant parser returns a key/value mapping, possibly empty.
C11_ParserReturnsMapping ==
    call.fn = "_parse_json_response" => call.ret.kind = "dict"

\* the parser handed back the list a reply consisted of
C11_NotAMapping ==
    /\ call.fn = "_parse_json_response"
    /\ call.text.form = "bare" /\ call.text.kind = "list"
    /\ call.ret.kind = "list"

(***************************************************************************)
(* Claims about the pipeline stages, checked under SpecPipeline.           *)
(***************************************************************************)
\* the reasoning call of extract_claim raised, or its text held no JSON object
ExtractionFails(llm) == llm.raised \/ llm.form = "empty" \/ llm.kind # "dict"

\* C12: when claim extraction fails (the reasoning call raises or its output
\* cannot be parsed into a structure) the stage yields a claim whose text is
\* the raw input verbatim and no error, and the pipeline goes on to the later
\* stages instead of returning early.
C12_ExtractionFallback ==
    [][\A i \in 1..Len(ExtractReplies) :
          (/\ ExtractCallsLlm(state)
           /\ ExtractionFails(ExtractReplies[i])
           /\ ExtractClaim(ExtractReplies[i]))
          => /\ state'.claim # <<>>
             /\ state'.claim[1].text = state.raw_input
             /\ state'.error = <<>>
             /\ ppc' = "extracted"
             /\ result' = NoResult]_vars

C12_Witness ==
    /\ ppc = "planned"
    /\ "extract" \in llm_calls.raised
    /\ state.claim # <<>>
    /\ state.claim[1].text = state.raw_input
    /\ state.raw_input # Strip(state.raw_input)

(***************************************************************************)
(* Claims about calibration, checked under SpecCalls.                      *)
(***************************************************************************)
\* C13: verdict calibration turns mostly_false into false and mostly_true
\* into true when the calibrated confidence is at least 0.80, and passes
\* every other verdict and confidence through unchanged.
C13_VerdictCalibration ==
    call.fn = "calibrate_verdict" =>
        /\ (call.confidence >= 8000 /\ call.verdict = "mostly_false") => call.ret = "false"
        /\ (call.confidence >= 8000 /\ call.verdict = "mostly_true") => call.ret = "true"
        /\ (call.confidence < 8000 \/ call.verdict \notin {"mostly_false", "mostly_true"})
              => call.ret = call.verdict

\* a hedged verdict exactly at the threshold was upgraded
C13_Witness ==
    /\ call.fn = "calibrate_verdict"
    /\ call.verdict = "mostly_false" /\ call.confidence = 8000
    /\ call.ret = "false"

\* the evidence of scenario A: one fact-check and one official item, both refuting
ScenarioAEvidence == <<EvidencePool[1], EvidencePool[2]>>

\* C14: for the claim "5G towers spread the coronavirus" with one fact-check
\* "refutes" item (0.9) and one official "refutes" item (0.92) and a false or
\* mostly_false verdict, the calibrated verdict is false and the calibrated
\* confidence is at least 0.90, whatever the raw confidence in [0, 1].
C14_ScenarioA ==
    (/\ call.fn = "calibrate_confidence"
     /\ call.claim_text = CalibrateTexts[1]
     /\ call.evidence = ScenarioAEvidence
     /\ call.verdict \in {"false", "mostly_false"}
     /\ call.base_confidence \in 0..10000)
    => /\ call.ret >= 9000
       /\ call.calibrated_verdict = "false"

\* scenario A with a raw confidence of 0.5 ended below the floor
C14_BelowFloor ==
    /\ call.fn = "calibrate_confidence"
    /\ call.claim_text = CalibrateTexts[1]
    /\ call.evidence = ScenarioAEvidence
    /\ call.verdict = "mostly_false"
    /\ call.base_confidence = 5000
    /\ call.ret = 7225
    /\ call.calibrated_verdict = "mostly_false"

\* C15 as stated: with an empty evidence list calibrate_confidence returns
\* exactly min(base, 0.4), for every base confidence in [0, 1] and every verdict.
C15_EmptyEvidenceMin ==
    (/\ call.fn = "calibrate_confidence"
     /\ call.evidence = <<>>
     /\ call.base_confidence \in 0..10000)
    => call.ret = Min(call.base_confidence, 4000)

\* C15 amended: with an empty evidence list calibrate_confidence returns
\* max(0.1, min(base, 0.4)) for every base confidence, verdict and claim
\* text, so none of the calibration rules is applied.
C15_EmptyEvidenceClamped ==
    (call.fn = "calibrate_confidence" /\ call.evidence = <<>>)
    => call.ret = (IF call.base_confidence > 4000 THEN 4000
                   ELSE IF call.base_confidence < 1000 THEN 1000
                   ELSE call.base_confidence)

\* a raw confidence of 0.05 without evidence came back as 0.1
C15_Witness ==
    /\ call.fn = "calibrate_confidence"
    /\ call.evidence = <<>>
    /\ call.base_confidence = 500
    /\ call.ret = 1000

\* C16: for every raw confidence, verdict, claim text and non-empty evidence
\* list the confidence calibrate_confidence returns lies in [0.1, 0.98].
C16_ConfidenceClamped ==
    (call.fn = "calibrate_confidence" /\ call.evidence # <<>>)
    => (call.ret >= 1000 /\ call.ret <= 9800)

\* boosts that add up to more than 1 were cut back to 0.98
C16_Witness ==
    /\ call.fn = "calibrate_confidence"
    /\ Len(call.evidence) >= 3
    /\ \A i \in 1..Len(call.evidence) : call.evidence[i].stance = "refutes"
    /\ call.verdict = "false"
    /\ call.base_confidence = 9000
    /\ call.ret = 9800

(***************************************************************************)
(* Claims about de-duplication and ranking, checked under SpecCalls.       *)
(***************************************************************************)
\* the number of entries of a list whose URL has the given domain
EntriesFrom(list, domain) ==
    Cardinality({i \in 1..Len(list) : _extract_domain(list[i].url) = domain})

\* the domains of the results of a list; a URL without a host has none
DomainsOf(list) == {_extract_domain(list[i].url) : i \in 1..Len(list)} \ {<<>>}

\* C17 as stated: when more than max_per_domain results of the input share
\* one domain, the de-duplicated output has exactly max_per_domain entries
\* from that domain.
C17_ExactlyCap ==
    call.fn = "_deduplicate_results" =>
        \A d \in DomainsOf(call.results) :
            EntriesFrom(call.results, d) > call.max_per_domain
            => EntriesFrom(call.ret, d) = call.max_per_domain

\* C17 amended: when more than max_per_domain results of the input share one
\* non-empty domain, the output has at most max_per_domain entries from that
\* domain, and exactly max_per_domain when no two results of the input have
\* the same snippet key.
C17_CapUnlessRepeated ==
    call.fn = "_deduplicate_results" =>
        \A d \in DomainsOf(call.results) :
            EntriesFrom(call.results, d) > call.max_per_domain
            => /\ EntriesFrom(call.ret, d) <= call.max_per_domain
               /\ (\A i, j \in 1..Len(call.results) :
                      i # j => SnippetKey(call.results[i]) # SnippetKey(call.results[j]))
                  => EntriesFrom(call.ret, d) = call.max_per_domain

\* four results of one domain with different snippets were cut to three
C17_Witness ==
    /\ call.fn = "_deduplicate_results"
    /\ call.max_per_domain = 3
    /\ Len(call.results) = 4
    /\ \A i \in 1..4 : _extract_domain(call.results[i].url) = <<"s", "n", "o", "p", "e", "s", ".", "c", "o", "m">>
    /\ \A i, j \in 1..4 : i # j => SnippetKey(call.results[i]) # SnippetKey(call.results[j])
    /\ call.ret = SubSeq(call.results, 1, 3)

\* the position of a result in a list of different results
IndexIn(list, r) == CHOOSE i \in 1..Len(list) : list[i] = r

\* the score ranking sorts by, computed by the scorer from the result itself
RankScore(r) == score(r.url, r.title, ToolSource(r.source)).score

\* C18: ranking returns a permutation of its input in non-increasing order
\* of reliability score, and two results of equal score keep the order they
\* had in the input.
C18_StableDescending ==
    call.fn = "_rank_by_reliability" =>
        /\ Len(call.ret) = Len(call.results)
        /\ \A i \in 1..Len(call.results) : \E j \in 1..Len(call.ret) :
              call.ret[j] = call.results[i]
        /\ \A i, j \in 1..Len(call.ret) :
              i < j => /\ RankScore(call.ret[i]) >= RankScore(call.ret[j])
                       /\ RankScore(call.ret[i]) = RankScore(call.ret[j])
                          => IndexIn(call.results, call.ret[i]) < IndexIn(call.results, call.ret[j])

\* a list was reordered by score while two results of equal score kept their order
C18_Witness ==
    /\ call.fn = "_rank_by_reliability"
    /\ Len(call.results) = 3
    /\ call.ret # call.results
    /\ \E i, j \in 1..3 : i < j /\ RankScore(call.ret[i]) = RankScore(call.ret[j])
    /\ RankScore(call.ret[1]) > RankScore(call.ret[3])

(***************************************************************************)
(* Claims about the streaming search, checked under SpecStreaming.         *)
(***************************************************************************)
\* C19: in the streaming search every source, in invocation order, has
\* exactly one "searching" event followed by exactly one "found" or "error"
\* event, and no event of the next source comes before the last event of the
\* previous one, also when sources fail: the events are, pairwise, those of
\* the sources in the order of the list.
C19_EventsInInvocationOrder ==
    /\ Len(events) <= 2 * Len(tasks)
    /\ \A k \in 1..Len(events) :
          /\ events[k].source = SOURCE_DISPLAY_NAMES(tasks[(k + 1) \div 2])
          /\ (k % 2 = 1) => events[k].status = "searching"
          /\ (k % 2 = 0) => events[k].status \in {"found", "error"}
    /\ \A i \in 1..Len(outcome) :
          /\ outcome[i].status = "pending" => Len(events) <= 2 * (i - 1)
          /\ outcome[i].status = "searching" => Len(events) = 2 * i - 1
          /\ outcome[i].status = "raised" =>
                Len(events) >= 2 * i /\ events[2 * i].status = "error"
          /\ outcome[i].status = "returned" =>
                /\ Len(events) >= 2 * i
                /\ events[2 * i].status = "found"
                /\ events[2 * i].count = Len(outcome[i].value)
    /\ ppc = "streamed" => Len(events) = 2 * Len(tasks)

\* a finished call with six sources, one that failed and one that found results
C19_Witness ==
    /\ ppc = "streamed"
    /\ Len(tasks) = 6
    /\ Len(events) = 12
    /\ \E i, j \in 1..6 :
          /\ i < j
          /\ outcome[i].status = "raised" /\ events[2 * i].status = "error"
          /\ outcome[j].status = "returned" /\ events[2 * j].count > 0


\* C20 as stated: find_similar(text, threshold) returns exactly the entries
\* that are not expired and whose token-set Jaccard similarity with the query
\* is at or above the threshold, each once, in non-increasing order of
\* similarity, and leaves the cache as it was.
C20_FindSimilarExact ==
    [][ret'.op = "find_similar" /\ now' = now =>
        LET words == WordSet(_normalize_claim(ret'.text))
            similarity(e) ==
                IF words \cup WordSet(e.normalized) = {} THEN <<0, 1>>
                ELSE <<Cardinality(words \cap WordSet(e.normalized)),
                       Cardinality(words \cup WordSet(e.normalized))>>
            matches == {i \in 1..Len(cache) :
                           /\ now - cache[i].checked_at <= cache_ttl
                           /\ RatGeq(similarity(cache[i]), ret'.threshold)}
        IN  /\ cache' = cache
            /\ Len(ret'.entries) = Cardinality(matches)
            /\ \A i \in matches : \E j \in 1..Len(ret'.entries) : ret'.entries[j] = cache[i]
            /\ \A j \in 1..Len(ret'.entries) : \E i \in matches : ret'.entries[j] = cache[i]
            /\ \A j, k \in 1..Len(ret'.entries) :
                   j < k => RatGeq(similarity(ret'.entries[j]), similarity(ret'.entries[k]))
    ]_vars

\* C20 as it holds: for a query with at least one token, find_similar returns
\* exactly the entries that are not expired, have at least one token and whose
\* token-set Jaccard similarity with the query is at or above the threshold,
\* each once, in non-increasing order of similarity; for a query without a
\* token it returns nothing; it leaves the cache as it was.
C20_FindSimilarTokens ==
    [][ret'.op = "find_similar" /\ now' = now =>
        LET words == WordSet(_normalize_claim(ret'.text))
            similarity(e) ==
                <<Cardinality(words \cap WordSet(e.normalized)),
                  Cardinality(words \cup WordSet(e.normalized))>>
            matches == {i \in 1..Len(cache) :
                           /\ now - cache[i].checked_at <= cache_ttl
                           /\ words # {}
                           /\ WordSet(cache[i].normalized) # {}
                           /\ RatGeq(similarity(cache[i]), ret'.threshold)}
        IN  /\ cache' = cache
            /\ Len(ret'.entries) = Cardinality(matches)
            /\ \A i \in matches : \E j \in 1..Len(ret'.entries) : ret'.entries[j] = cache[i]
            /\ \A j \in 1..Len(ret'.entries) : \E i \in matches : ret'.entries[j] = cache[i]
            /\ \A j, k \in 1..Len(ret'.entries) :
                   j < k => RatGeq(similarity(ret'.entries[j]), similarity(ret'.entries[k]))
    ]_vars

\* a find_similar at threshold 0.5 has returned both entries of the cache, the
\* more similar one first although it was stored later
C20_Witness ==
    /\ ret.op = "find_similar"
    /\ ret.threshold = <<1, 2>>
    /\ Len(ret.entries) = 2
    /\ Len(cache) = 2
    /\ ret.entries[1] = cache[2]
    /\ ret.entries[2] = cache[1]
    /\ ~RatGeq(ret.similarity[2], ret.similarity[1])

\* a find_similar at threshold 0 with a query of punctuation only has returned
\* nothing although the cache holds an entry that is not expired
C20_EmptyQuery ==
    /\ ret.op = "find_similar"
    /\ ret.threshold = <<0, 1>>
    /\ WordSet(_normalize_claim(ret.text)) = {}
    /\ ret.entries = <<>>
    /\ \E i \in 1..Len(cache) : now - cache[i].checked_at <= cache_ttl

C22_DiversityRange ==
    call.fn = "calculate_source_diversity" =>
        /\ call.search_results = <<>> => call.ret = 0
        /\ call.ret >= 0
        /\ call.ret <= 10000

\* four results of four domains and four categories, a fact check and an
\* official page among them, were scored: the sum 1.1 was cut to 1.0
C22_Witness ==
    /\ call.fn = "calculate_source_diversity"
    /\ Len(call.search_results) = 4
    /\ Cardinality({reliability_extract_domain(call.search_results[i].url) : i \in 1..4}) = 4
    /\ call.ret = 10000

\* C23: a call of calibrate_confidence with evidence, a verdict of false or
\* mostly_false, a raw confidence in [0, 1] and a claim text that contains an
\* entry of PSEUDOSCIENCE_KEYWORDS returns a confidence of at least 0.90.
C23_PseudoscienceFloor ==
    (/\ call.fn = "calibrate_confidence"
     /\ call.evidence # <<>>
     /\ call.verdict \in {"false", "mostly_false"}
     /\ call.base_confidence \in 0..10000
     /\ \E k \in 1..Len(PSEUDOSCIENCE_KEYWORDS) :
            Contains(Lower(call.claim_text), PSEUDOSCIENCE_KEYWORDS[k]))
    => call.ret >= 9000

\* "5G causes COVID-19" with one neutral item and a raw confidence of 0.5 was
\* raised to 0.90 by the keyword rule and came back as 0.90 * 0.85
C23_BelowFloor ==
    /\ call.fn = "calibrate_confidence"
    /\ call.claim_text = CalibrateTexts[2]
    /\ Len(call.evidence) = 1
    /\ call.evidence[1].stance = "neutral"
    /\ call.verdict = "false"
    /\ call.base_confidence = 5000
    /\ call.ret = 7650

\* the reply of the reasoning capability gives synthesize_evidence no
\* findings: it does not parse to an object, or the object has no key_findings
\* or an empty one
NoFindings(llm) ==
    /\ ~llm.raised
    /\ \/ _parse_json_response(llm).kind # "dict"
       \/ ~Truthy(ParsedGet(_parse_json_response(llm), "key_findings", JList(<<>>)))

\* C24: when the reply of the synthesis stage yields no findings and n >= 1
\* ranked results exist, the stage returns exactly min(5, n) evidence items,
\* the i-th built from the i-th ranked result, every stance neutral.
C24_FallbackEvidence ==
    [][\A r \in 1..Len(SynthesisReplies) :
          (/\ NoFindings(SynthesisReplies[r])
           /\ ppc = "searched"
           /\ state.search_results # <<>>
           /\ SynthesizeEvidence(SynthesisReplies[r]))
          => /\ ppc' = "synthesized"
             /\ Len(state'.evidence) = Min(5, Len(state.search_results))
             /\ \A i \in 1..Len(state'.evidence) :
                    /\ state'.evidence[i].stance = "neutral"
                    /\ state'.evidence[i].source_url = state.search_results[i].url
                    /\ state'.evidence[i].source_name
                         = Prefix(state.search_results[i].title, 50)]_vars

\* a reply with a verdict and no findings was analysed over more than five
\* ranked results: five neutral items came back with the reply's verdict
C24_Witness ==
    /\ ppc = "synthesized"
    /\ "_reasoning" \in DOMAIN state
    /\ state._reasoning = "analysis"
    /\ state.verdict = "true"
    /\ Len(state.search_results) > 5
    /\ Len(state.evidence) = 5
    /\ \A i \in 1..5 : state.evidence[i].stance = "neutral"

\* C25: in the streaming endpoint the client gets every event of the
\* streaming search exactly once and in the order of emission: what was
\* yielded followed by what waits in the queue is what was emitted; the poll
\* loop is left only when the search task is done; and when the step event
\* with the number of sources is yielded, every emitted event was yielded
\* before it and the queue is empty.
C25_EventsDeliveredInOrder ==
    LET sources == SelectSeq(delivered, LAMBDA m : m.type = "source")
        pending(n) ==
            /\ Len(events) = n + Len(event_queue)
            /\ \A i \in 1..Len(events) :
                   LET e == IF i <= n THEN sources[i] ELSE event_queue[i - n]
                   IN /\ e.source = events[i].source
                      /\ e.status = events[i].status
                      /\ e.count = events[i].count
    IN gpc # "off" =>
          /\ pending(Len(sources))
          /\ gpc \in {"draining", "reported"} => ppc = "streamed"
          /\ gpc = "reported" =>
                /\ event_queue = <<>>
                /\ Len(delivered) = Len(events) + 1
                /\ delivered[Len(delivered)].type = "step"
                /\ \A i \in 1..Len(events) : delivered[i].type = "source"

\* the step event was yielded after events of the poll loop and of the drain
\* loop, the last search result events among the drained ones
C25_Witness ==
    /\ gpc = "reported"
    /\ Len(delivered) > 4
    /\ delivered[1].progress < 60
    /\ delivered[Len(delivered) - 1].progress = 60
    /\ delivered[Len(delivered) - 1].status = "found"
    /\ delivered[Len(delivered) - 2].progress = 60
    /\ delivered[Len(delivered)].found > 0

\* C26: in one batch call at most 5 pipeline runs are in flight at any time,
\* and a claim of a chunk starts only after every claim of the chunks before
\* it has finished.
C26_ChunkedConcurrency ==
    LET started(c) == process[c] \in {"running", "returned", "failed"}
        finished(c) == process[c] \in {"returned", "failed"}
        chunk(c) == (c - 1) \div 5
    IN bpc # "off" =>
          /\ Cardinality({c \in 1..Len(process) : process[c] = "running"}) <= 5
          /\ \A c, d \in 1..Len(process) :
                 started(c) /\ chunk(d) < chunk(c) => finished(d)

\* eleven claims: the first five have finished, one of them with an error, and
\* all five of the second chunk are running
C26_Witness ==
    /\ Len(claims_to_process) = 11
    /\ \A c \in 1..5 : process[c] \in {"returned", "failed"}
    /\ \E c \in 1..5 : process[c] = "failed"
    /\ \A c \in 6..10 : process[c] = "running"
    /\ process[11] = "none"

\* C27: whenever no store call is under way (every thread is back from its
\* call), the cache holds at most max_cache_size entries, whatever the
\* interleaving of the three locked steps of the store calls was.
C27_SizeAfterConcurrentStores ==
    (\A t \in Threads : pc[t] = "idle") => Len(cache) <= max_cache_size

\* every call has returned and the cache is full, the entry stored first gone
C27_Witness ==
    /\ pc # <<>>
    /\ \A t \in Threads : pc[t] = "idle"
    /\ Len(cache) = max_cache_size
    /\ cache[1].normalized = <<"a", " ", "b">>
    /\ cache[2].normalized = <<"a">>

C29_TaskOrderNotCompletionOrder ==
    ppc = "searched" =>
        /\ Len(completed) = Len(tasks)
        /\ state._raw_results_count = Len(NonFailingResults(outcome, 1))
        /\ state._deduplicated_count =
              Len(_deduplicate_results(NonFailingResults(outcome, 1), 3))
        /\ state.search_results =
              _rank_by_reliability(_deduplicate_results(NonFailingResults(outcome, 1), 3))

\* the last task of the list ended first and the first task ended last, both
\* with results
C29_Witness ==
    /\ ppc = "searched"
    /\ Len(tasks) = 4
    /\ completed = <<4, 3, 2, 1>>
    /\ outcome[1].status = "returned" /\ outcome[1].value # <<>>
    /\ outcome[4].status = "returned" /\ outcome[4].value # <<>>
    /\ state.search_results # <<>>

\* C30: _normalize_claim is idempotent: what it returns is left as it is by a
\* second pass, so a text and its normalized form have the same hash key.
C30_NormalizeIdempotent ==
    call.fn = "_normalize_claim" =>
        /\ _normalize_claim(call.ret) = call.ret
        /\ _hash_claim(call.ret) = _hash_claim(call.claim_text)

\* ". a" comes back as " a": the blank that followed the full stop is now the
\* first character, and a second pass strips it
C30_LeadingBlankLeft ==
    /\ call.fn = "_normalize_claim"
    /\ call.claim_text = <<".", " ", "a">>
    /\ call.ret = <<" ", "a">>
    /\ _normalize_claim(call.ret) = <<"a">>

====
